---- MODULE Spec2Model ----
(***************************************************************************)
(* Rules (policy) evaluation engine of the school-management backend:     *)
(* RulesService of rules.service.ts (src/unnamed/part_013, lines 263 ff.) *)
(* with its module-level rule cache, the rule store behind prisma.rule    *)
(* and prisma.ruleException, and the rule lifecycle operations.            *)
(*                                                                         *)
(* Conventions.  An optional value (undefined / null in the source) is a  *)
(* sequence of length at most one: <<>> is "absent", <<x>> is "x".  A      *)
(* message is a sequence of strings, so that the template literals of the *)
(* source (`Warning from rule: ${rule.name}`) are <<prefix, name>> and    *)
(* the empty string '' is <<>>.  A JSON value is a record tagged with its *)
(* JavaScript type.  Time is in milliseconds.                              *)
(***************************************************************************)
EXTENDS Integers, Sequences, FiniteSets, TLC

VARIABLES
    store,        \* prisma.rule: the rule rows, in insertion order (id = index)
    exceptions,   \* prisma.ruleException: the exception rows
    rulesCache,   \* the module-level Map moduleName -> {rules, lastUpdated}
    now,          \* the wall clock read by Date.now() and new Date()
    evals,        \* one record per evaluateRules call: its locals and position
    ops,          \* one record per lifecycle call: its locals and position
    storeVer,     \* history: number of writes applied to prisma.rule so far
    doneVer,      \* history: storeVer as of the last write of a completed lifecycle call
    cacheVer,     \* history: per module, storeVer at the query that filled the entry
    cacheReadAt   \* history: per module, clock at the query that filled the entry

vars == <<store, exceptions, rulesCache, now, evals, ops,
          storeVer, doneVer, cacheVer, cacheReadAt>>

---------------------------------------------------------------------------
(* Bounds *)

MaxRules == 2         \* rule rows in the store of the single-evaluation specification
MaxStore == 3         \* rule rows the lifecycle calls may create
MaxWrites == 4        \* writes of the lifecycle calls to prisma.rule
MaxEngineStore == 2   \* rule rows created in the engine specification
MaxEngineWrites == 3  \* writes to prisma.rule in the engine specification
MaxEpoch == 1         \* the clock runs over MaxEpoch + 1 cache lifetimes

---------------------------------------------------------------------------
(* Optional values *)

Null == <<>>

Some(x) == <<x>>

IsNull(o) == o = <<>>

Get(o) == o[1]

\* a || b of the source for an optional a
OrElse(o, d) == IF o = <<>> THEN d ELSE o[1]

---------------------------------------------------------------------------
(* Program constants *)

CACHE_TTL == 5 * 60 * 1000

Modules == {"attendance"}

Evaluators == {"e1", "e2"}

Writers == {"w1", "w2"}

\* the instants the clock is read at: 0, 1, and the multiples of the cache
\* lifetime (an entry filled at 1 is one millisecond short of CACHE_TTL old
\* at CACHE_TTL, an entry filled at 0 is exactly CACHE_TTL old)
Times == {0, 1} \cup {k * CACHE_TTL : k \in 1..MaxEpoch}

---------------------------------------------------------------------------
(* JSON values and the condition evaluator *)

Num(n) == [t |-> "number", v |-> n]

Str(s) == [t |-> "string", v |-> s]

Arr(a) == [t |-> "array", v |-> a]

\* the JSON value null
Nul == [t |-> "null", v |-> 0]

\* the strings of the model that are numeric literals, with their value
\* (Number("") is 0)
NumericStrings == {<<"", 0>>, <<"30", 30>>, <<"40", 40>>}

\* Number(x): a number is itself; a string gives its value when it is a
\* numeric literal and NaN otherwise; null gives 0; an array gives 0 when
\* empty, Number of its element when it has one element, NaN otherwise.
\* NaN is <<>>.
RECURSIVE Number(_)
Number(x) ==
    CASE x.t = "number" -> Some(x.v)
      [] x.t = "string" ->
            IF \E ns \in NumericStrings : ns[1] = x.v
            THEN Some((CHOOSE ns \in NumericStrings : ns[1] = x.v)[2])
            ELSE Null
      [] x.t = "null" -> Some(0)
      [] x.t = "array" ->
            IF Len(x.v) = 0 THEN Some(0)
            ELSE IF Len(x.v) = 1 THEN Number(x.v[1])
            ELSE Null
      [] OTHER -> Null

\* a === b: primitives by type and value, arrays by identity (a stored
\* payload and a context value are never the same object)
StrictEquals(a, b) == a.t = b.t /\ a.t # "array" /\ a.v = b.v

\* Array.prototype.includes (SameValueZero on each element)
Includes(arr, x) == \E k \in 1..Len(arr) : StrictEquals(arr[k], x)

\* numeric comparisons: false as soon as one side is NaN
NumLt(a, b) == a # Null /\ b # Null /\ a[1] < b[1]

NumLte(a, b) == a # Null /\ b # Null /\ a[1] <= b[1]

Has(c, f) == f \in DOMAIN c

\* String(x).toLowerCase() for the scalars of the model
LowerString(x) ==
    CASE x.t = "number" /\ x.v = 20 -> "20"
      [] x.t = "number" /\ x.v = 30 -> "30"
      [] x.t = "number" /\ x.v = 40 -> "40"
      [] x.t = "number" /\ x.v = 50 -> "50"
      [] x.t = "string" /\ x.v = "ABC" -> "abc"
      [] x.t = "string" -> x.v
      [] x.t = "null" -> "null"
      [] OTHER -> "other"

\* String.prototype.includes over the lower-case strings of the model
StringIncludes(hay, needle) ==
    \/ needle = "" \/ needle = hay
    \/ hay = "abc" /\ needle \in {"a", "b", "c", "ab", "bc"}
    \/ hay = "20" /\ needle \in {"2", "0"}
    \/ hay = "30" /\ needle \in {"3", "0"}
    \/ hay = "50" /\ needle \in {"5", "0"}
    \/ hay = "40" /\ needle \in {"4", "0"}
    \/ hay = "null" /\ needle \in {"n", "u", "l", "nu", "ul", "ll", "nul", "ull"}

\* a threshold test in which ne and nin hold for a field that is absent
evaluateThreshold_AbsentDiffers(condition, context) ==
    IF ~Has(condition, "field") \/ ~Has(condition, "operator") \/ ~Has(condition, "value")
    THEN FALSE
    ELSE IF \/ condition.field \notin DOMAIN context.resourceData
            \/ context.resourceData[condition.field].t = "null"
    THEN condition.operator \in {"ne", "nin"}
    ELSE LET fieldValue == context.resourceData[condition.field]
             value == condition.value
             op == condition.operator
         IN CASE op = "eq" -> StrictEquals(fieldValue, value)
              [] op = "ne" -> ~StrictEquals(fieldValue, value)
              [] op = "gt" -> NumLt(Number(value), Number(fieldValue))
              [] op = "gte" -> NumLte(Number(value), Number(fieldValue))
              [] op = "lt" -> NumLt(Number(fieldValue), Number(value))
              [] op = "lte" -> NumLte(Number(fieldValue), Number(value))
              [] op = "in" -> value.t = "array" /\ Includes(value.v, fieldValue)
              [] op = "nin" -> value.t = "array" /\ ~Includes(value.v, fieldValue)
              [] op = "contains" ->
                    StringIncludes(LowerString(fieldValue), LowerString(value))
              [] op = "between" ->
                    IF value.t = "array" /\ Len(value.v) = 2
                    THEN /\ NumLte(Number(value.v[1]), Number(fieldValue))
                         /\ NumLte(Number(fieldValue), Number(value.v[2]))
                    ELSE FALSE
              [] OTHER -> FALSE

evaluateThreshold(condition, context) ==
    IF ~Has(condition, "field") \/ ~Has(condition, "operator") \/ ~Has(condition, "value")
    THEN FALSE
    ELSE IF \/ condition.field \notin DOMAIN context.resourceData
            \/ context.resourceData[condition.field].t = "null"
    THEN FALSE
    ELSE LET fieldValue == context.resourceData[condition.field]
             value == condition.value
             op == condition.operator
         IN CASE op = "eq" -> StrictEquals(fieldValue, value)
              [] op = "ne" -> ~StrictEquals(fieldValue, value)
              [] op = "gt" -> NumLt(Number(value), Number(fieldValue))
              [] op = "gte" -> NumLte(Number(value), Number(fieldValue))
              [] op = "lt" -> NumLt(Number(fieldValue), Number(value))
              [] op = "lte" -> NumLte(Number(fieldValue), Number(value))
              [] op = "in" -> value.t = "array" /\ Includes(value.v, fieldValue)
              [] op = "nin" -> value.t = "array" /\ ~Includes(value.v, fieldValue)
              [] op = "contains" ->
                    StringIncludes(LowerString(fieldValue), LowerString(value))
              [] op = "between" ->
                    IF value.t = "array" /\ Len(value.v) = 2
                    THEN /\ NumLte(Number(value.v[1]), Number(fieldValue))
                         /\ NumLte(Number(fieldValue), Number(value.v[2]))
                    ELSE FALSE
              [] OTHER -> FALSE

\* the expressions of the model with what safeEvaluate makes of them: the
\* references are replaced by literals (null for a missing field), the text
\* is compiled and run, any failure is caught and gives false.  Other
\* expressions are outside the model.
safeEvaluate(expression, evalContext) ==
    CASE expression = "data.percentage < 40" ->
            \* null < 40 is true; a non-numeric string gives NaN < 40
            IF "percentage" \notin DOMAIN evalContext.data THEN TRUE
            ELSE NumLt(Number(evalContext.data.percentage), Some(40))
      [] expression = "data.percentage <" -> FALSE   \* SyntaxError, caught
      [] expression = "data.owner.id == 1" -> FALSE  \* null.id: TypeError, caught
      [] OTHER -> FALSE

evaluateExpression(condition, context) ==
    IF ~Has(condition, "expression") \/ condition.expression = ""
    THEN FALSE
    ELSE safeEvaluate(condition.expression,
                      [user |-> context.user, data |-> context.resourceData,
                       action |-> context.action])

\* getHours() * 60 + getMinutes() of a time in milliseconds (UTC)
MinuteOfDay(t) == (t \div 60000) % 1440

\* "HH:MM".split(':').map(Number) is modelled by its result: a sequence of
\* numbers, NaN being <<>>; a missing element is undefined, and isNaN of it
\* is true
NaNAt(parts, k) == k > Len(parts) \/ parts[k] = Null

\* new Date(text) is modelled by its time value, an invalid date being <<>>
evaluateTimeBased(condition, context, clock) ==
    LET at == OrElse(context.timestamp, clock)
    IN IF Has(condition, "timeRange")
       THEN IF ~Has(condition.timeRange, "start") \/ ~Has(condition.timeRange, "end")
            THEN FALSE  \* undefined.split: TypeError, caught
            ELSE LET st == condition.timeRange.start
                     en == condition.timeRange.end
                 IN IF NaNAt(st, 1) \/ NaNAt(st, 2) \/ NaNAt(en, 1) \/ NaNAt(en, 2)
                    THEN FALSE
                    ELSE /\ MinuteOfDay(at) >= st[1][1] * 60 + st[2][1]
                         /\ MinuteOfDay(at) <= en[1][1] * 60 + en[2][1]
       ELSE IF Has(condition, "dateRange")
       THEN IF condition.dateRange.start = Null \/ condition.dateRange.end = Null
            THEN FALSE
            ELSE at >= condition.dateRange.start[1] /\ at <= condition.dateRange.end[1]
       ELSE FALSE

\* context.user.roles.includes throws when the user carries no roles
evaluateRoleBasedThrows(condition, context) ==
    Has(condition, "roles") /\ condition.roles # {} /\ ~Has(context.user, "roles")

evaluateRoleBased(condition, context) ==
    IF ~Has(condition, "roles") \/ condition.roles = {}
    THEN FALSE
    ELSE \E role \in condition.roles : role \in context.user.roles

evaluatePermissionBasedThrows(condition, context) ==
    /\ Has(condition, "permissions") /\ condition.permissions # {}
    /\ ~Has(context.user, "permissions")

evaluatePermissionBased(condition, context) ==
    IF ~Has(condition, "permissions") \/ condition.permissions = {}
    THEN FALSE
    ELSE \E permission \in condition.permissions : permission \in context.user.permissions

RECURSIVE evaluateCondition(_, _)
\* a composite that folds with OR when no logic is given
evaluateComposite_DefaultOr(condition, context) ==
    IF ~Has(condition, "conditions") \/ Len(condition.conditions) = 0
    THEN FALSE
    ELSE LET results == [k \in 1..Len(condition.conditions) |->
                            evaluateCondition(condition.conditions[k], context)]
         IN IF Has(condition, "logic") /\ condition.logic = "AND"
            THEN \A k \in 1..Len(results) : results[k]
            ELSE \E k \in 1..Len(results) : results[k]

evaluateComposite(condition, context) ==
    IF ~Has(condition, "conditions") \/ Len(condition.conditions) = 0
    THEN FALSE
    ELSE LET results == [k \in 1..Len(condition.conditions) |->
                            evaluateCondition(condition.conditions[k], context)]
         IN IF Has(condition, "logic") /\ condition.logic = "OR"
            THEN \E k \in 1..Len(results) : results[k]
            ELSE \A k \in 1..Len(results) : results[k]

\* the switch of evaluateCondition; the evaluators with a try block of their
\* own never throw, the two without one may
SwitchThrows(condition, context) ==
    /\ Has(condition, "type")
    /\ \/ condition.type = "role_based" /\ evaluateRoleBasedThrows(condition, context)
       \/ condition.type = "permission_based"
            /\ evaluatePermissionBasedThrows(condition, context)

SwitchResult(condition, context) ==
    CASE condition.type = "expression" -> evaluateExpression(condition, context)
      [] condition.type = "threshold" -> evaluateThreshold(condition, context)
      [] condition.type = "time_based" -> evaluateTimeBased(condition, context, now)
      [] condition.type = "role_based" -> evaluateRoleBased(condition, context)
      [] condition.type = "permission_based" -> evaluatePermissionBased(condition, context)
      [] condition.type = "composite" -> evaluateComposite(condition, context)
      [] OTHER -> FALSE

\* a condition evaluator in which a failing condition counts as met
evaluateCondition_ThrowIsTrue(condition, context) ==
    IF ~Has(condition, "type") THEN FALSE
    ELSE IF SwitchThrows(condition, context) THEN TRUE
    ELSE SwitchResult(condition, context)

evaluateCondition(condition, context) ==
    IF ~Has(condition, "type") THEN FALSE
    ELSE IF SwitchThrows(condition, context) THEN FALSE  \* the catch block
    ELSE SwitchResult(condition, context)

---------------------------------------------------------------------------
(* The rule store *)

IsPermutationOf(seq, S) ==
    /\ Len(seq) = Cardinality(S)
    /\ \A x \in S : \E k \in 1..Len(seq) : seq[k] = x

\* orderBy: [{ priority: 'asc' }, { createdAt: 'asc' }]
OrderedBefore(a, b) ==
    \/ a.priority < b.priority
    \/ a.priority = b.priority /\ a.createdAt <= b.createdAt

IsOrdered(seq) ==
    \A j, k \in 1..Len(seq) : j < k => OrderedBefore(seq[j], seq[k])

\* the where clause of the query of getCachedRules, at = new Date()
ActiveRuleWhere(rule, moduleName, at) ==
    /\ rule.moduleName = moduleName
    /\ rule.isActive
    /\ rule.effectiveFrom <= at
    /\ (rule.effectiveTo = Null \/ rule.effectiveTo[1] >= at)

\* prisma.rule.findMany of getCachedRules: the answers the store may give.
\* Rows that agree on priority and createdAt come in an order the query
\* does not fix.
FindActiveRules(rows, moduleName, at) ==
    LET hits == {rows[k] : k \in {j \in 1..Len(rows) : ActiveRuleWhere(rows[j], moduleName, at)}}
        n == Cardinality(hits)
    IN {seq \in [1..n -> hits] : IsPermutationOf(seq, hits) /\ IsOrdered(seq)}

\* a where clause without the user
ExceptionWhere_AnyUser(exception, userId, ruleIds, at) ==
    /\ exception.ruleId \in ruleIds
    /\ exception.isActive
    /\ exception.effectiveFrom <= at
    /\ exception.effectiveTo >= at

\* the where clause of prisma.ruleException.findFirst of checkRuleException
ExceptionWhere(exception, userId, ruleIds, at) ==
    /\ exception.userId = userId
    /\ exception.ruleId \in ruleIds
    /\ exception.isActive
    /\ exception.effectiveFrom <= at
    /\ exception.effectiveTo >= at

RuleIds(rules) == {rules[k].id : k \in 1..Len(rules)}

\* checkRuleException asking for an exception on every candidate rule
\* instead of on any of them
checkRuleException_AllRules(rows, userId, ruleIds, at) ==
    IF ruleIds = {} THEN FALSE
    ELSE \A id \in ruleIds :
            \E exception \in rows : ExceptionWhere(exception, userId, {id}, at)

checkRuleException(rows, userId, ruleIds, at) ==
    IF ruleIds = {} THEN FALSE
    ELSE \E exception \in rows : ExceptionWhere(exception, userId, ruleIds, at)

---------------------------------------------------------------------------
(* evaluateRules *)

NoContext ==
    [user |-> [id |-> "", roles |-> {}, permissions |-> {}],
     action |-> "", moduleName |-> "", resourceData |-> <<>>, timestamp |-> Null]

IdleEval ==
    [pc |-> "idle", context |-> NoContext, startTime |-> 0, queryNow |-> 0,
     fetched |-> <<>>, rules |-> <<>>, i |-> 0,
     finalDecision |-> "ALLOWED", finalMessage |-> <<>>, modifications |-> <<>>,
     requiresApproval |-> FALSE, approvers |-> <<>>, triggeredRules |-> <<>>,
     ruleLogs |-> <<>>, audits |-> <<>>, result |-> Null,
     \* the deferred log writes of the call: how many have run, the rows that
     \* reached the store, the failures reported on the console
     ran |-> 0, written |-> <<>>, diagnostics |-> <<>>,
     \* history of the call, read by the properties only
     examined |-> <<>>, seen |-> Null, fromCache |-> FALSE, queried |-> FALSE,
     rulesVer |-> 0, rulesReadAt |-> 0, minVer |-> 0, exceptionAt |-> 0,
     lookupFailed |-> FALSE, answer |-> Null, lookedUp |-> {}]

createResult(decision, triggeredRules, startTime, message, modifications, requiresApproval, approvers) ==
    [decision |-> decision, message |-> message, triggeredRules |-> triggeredRules,
     modifications |-> modifications, requiresApproval |-> requiresApproval,
     approvers |-> approvers, executionTimeMs |-> now - startTime, error |-> Null]

\* AuditService.logSuccess / logFailure: the entry handed to the audit sink
AuditEntry(userId, action, resource, status, resourceId) ==
    [userId |-> userId, action |-> action, resource |-> resource,
     status |-> status, resourceId |-> resourceId]

\* the catch block of evaluateRules
ErrorReturn(e, message) ==
    [e EXCEPT !.pc = "done",
              !.audits = Append(@, AuditEntry(e.context.user.id,
                                    <<"RULE_EVALUATION_ERROR_", e.context.action>>,
                                    e.context.moduleName, "FAILURE", Null)),
              !.result = Some([decision |-> "ERROR",
                               message |-> <<"Rule evaluation failed">>,
                               triggeredRules |-> <<>>,
                               modifications |-> Null, requiresApproval |-> Null,
                               approvers |-> Null,
                               executionTimeMs |-> now - e.startTime,
                               error |-> Some(message)])]

\* evaluateRules once getCachedRules has returned rules: the empty-list
\* return, or the query of checkRuleException is issued
AfterGetCachedRules(e, rules, ver, readAt) ==
    LET e1 == [e EXCEPT !.rules = rules, !.rulesVer = ver, !.rulesReadAt = readAt]
    IN IF Len(rules) = 0
       THEN [e1 EXCEPT !.pc = "done",
                       !.result = Some(createResult("ALLOWED", <<>>, e.startTime,
                                        <<"No active rules found">>, Null, Null, Null))]
       ELSE [e1 EXCEPT !.pc = "exception", !.exceptionAt = now]

\* the cache test with the bound included
CacheValid_Inclusive(cached, at) ==
    cached # Null /\ (at - cached[1].lastUpdated) <= CACHE_TTL

\* the cache test of getCachedRules
CacheValid(cached, at) ==
    cached # Null /\ (at - cached[1].lastUpdated) < CACHE_TTL

\* a validation that looks at the user id only
ValidContext_UserOnly(context) == context.user.id # ""

ValidContext(context) ==
    context.user.id # "" /\ context.moduleName # "" /\ context.action # ""

\* evaluateRules from its entry to the first await that leaves the process:
\* validation, then getCachedRules up to the cache test
StartBody(e0, context) ==
    LET e == [e0 EXCEPT !.context = context, !.startTime = now,
                        !.minVer = IF context.moduleName \in Modules
                                   THEN doneVer[context.moduleName] ELSE 0]
    IN IF ~ValidContext(context)
       THEN ErrorReturn(e, "Invalid evaluation context: missing required fields")
       ELSE LET cached == rulesCache[context.moduleName]
            IN IF CacheValid(cached, now)
               THEN AfterGetCachedRules([e EXCEPT !.seen = cached, !.fromCache = TRUE],
                                        cached[1].rules,
                                        cacheVer[context.moduleName],
                                        cacheReadAt[context.moduleName])
               ELSE [e EXCEPT !.seen = cached, !.pc = "query", !.queryNow = now]

EvalStart(p, context) ==
    /\ evals[p].pc = "idle"
    /\ evals' = [evals EXCEPT ![p] = StartBody(@, context)]
    /\ UNCHANGED <<store, exceptions, rulesCache, now, ops, storeVer, doneVer,
                   cacheVer, cacheReadAt>>

\* a failed fetch answered from the expired entry, when there is one
QueryFailed_StaleFallback(e) ==
    IF e.seen # Null
    THEN AfterGetCachedRules(e, e.seen[1].rules, 0, 0)
    ELSE ErrorReturn(e, "Can't reach database server")

\* the findMany of getCachedRules rejects: the rejection leaves getCachedRules
\* before rulesCache.set and lands in the catch block of evaluateRules
QueryFailed(e) == ErrorReturn(e, "Can't reach database server")

\* the store answers the findMany of getCachedRules, or the query fails
EvalQuery(p) ==
    /\ evals[p].pc = "query"
    /\ \/ \E rows \in FindActiveRules(store, evals[p].context.moduleName, evals[p].queryNow) :
            evals' = [evals EXCEPT ![p] =
                [@ EXCEPT !.pc = "set", !.fetched = rows, !.queried = TRUE,
                          !.rulesVer = storeVer, !.rulesReadAt = now,
                          !.answer = Some(rows)]]
       \/ evals' = [evals EXCEPT ![p] = QueryFailed(@)]
    /\ UNCHANGED <<store, exceptions, rulesCache, now, ops, storeVer, doneVer,
                   cacheVer, cacheReadAt>>

\* a refresh that adds the fetched rows to the list the entry already holds
SetBody_MixesWithEntry(e) ==
    LET entry == rulesCache[e.context.moduleName]
        held == IF entry = Null THEN <<>> ELSE entry[1].rules
    IN AfterGetCachedRules([e EXCEPT !.fetched = <<>>], held \o e.fetched,
                           e.rulesVer, e.rulesReadAt)

\* getCachedRules after the await: rulesCache.set and return
SetBody(e) ==
    AfterGetCachedRules([e EXCEPT !.fetched = <<>>], e.fetched, e.rulesVer, e.rulesReadAt)

EvalCacheSet(p) ==
    /\ evals[p].pc = "set"
    /\ LET e == evals[p]
           m == e.context.moduleName
       IN /\ rulesCache' = [rulesCache EXCEPT ![m] =
                              Some([rules |-> e.fetched, lastUpdated |-> e.queryNow])]
          /\ cacheVer' = [cacheVer EXCEPT ![m] = e.rulesVer]
          /\ cacheReadAt' = [cacheReadAt EXCEPT ![m] = e.rulesReadAt]
          /\ evals' = [evals EXCEPT ![p] = SetBody(e)]
    /\ UNCHANGED <<store, exceptions, now, ops, storeVer, doneVer>>

\* a failed lookup that lets the user through as if an exception were held
ExceptionBody_FailOpen(e, failed) ==
    LET found == checkRuleException(exceptions, e.context.user.id,
                                    RuleIds(e.rules), e.exceptionAt)
    IN IF failed \/ found
       THEN [e EXCEPT !.pc = "done", !.lookupFailed = failed /\ found,
                      !.result = Some(createResult("ALLOWED", <<>>, e.startTime,
                                       <<"User has rule exception">>, Null, Null, Null))]
       ELSE [e EXCEPT !.pc = "loop", !.i = 1]

\* the store answers the findFirst of checkRuleException (a failed lookup is
\* caught there and counts as "no exception"), then evaluateRules goes on;
\* lookupFailed records a failure that hid an exception the store holds
ExceptionBody(e, failed) ==
    LET found == checkRuleException(exceptions, e.context.user.id,
                                    RuleIds(e.rules), e.exceptionAt)
        hasException == IF failed THEN FALSE ELSE found
    IN IF hasException
       THEN [e EXCEPT !.pc = "done", !.lookedUp = exceptions,
                      !.result = Some(createResult("ALLOWED", <<>>, e.startTime,
                                       <<"User has rule exception">>, Null, Null, Null))]
       ELSE [e EXCEPT !.pc = "loop", !.i = 1, !.lookedUp = exceptions,
                      !.lookupFailed = failed /\ found]

EvalException(p) ==
    /\ evals[p].pc = "exception"
    /\ \E failed \in BOOLEAN :
         evals' = [evals EXCEPT ![p] = ExceptionBody(@, failed)]
    /\ UNCHANGED <<store, exceptions, rulesCache, now, ops, storeVer, doneVer,
                   cacheVer, cacheReadAt>>

\* actionPayload?.message || fallback
MessageOr(rule, prefix) ==
    IF /\ rule.actionPayload # Null
       /\ rule.actionPayload[1].message # Null
       /\ rule.actionPayload[1].message[1] # ""
    THEN <<rule.actionPayload[1].message[1]>>
    ELSE <<prefix, rule.name>>

\* [...new Set([...a, ...b])]
RECURSIVE Dedup(_)
Dedup(seq) ==
    IF Len(seq) = 0 THEN <<>>
    ELSE LET front == Dedup(SubSeq(seq, 1, Len(seq) - 1))
             last == seq[Len(seq)]
         IN IF \E k \in 1..Len(front) : front[k] = last THEN front ELSE Append(front, last)

\* { ...b, ...a }: the earlier value of a key survives
Spread_FirstWins(a, b) ==
    [k \in (DOMAIN a) \cup (DOMAIN b) |-> IF k \in DOMAIN a THEN a[k] ELSE b[k]]

\* { ...a, ...b }
Spread(a, b) ==
    [k \in (DOMAIN a) \cup (DOMAIN b) |-> IF k \in DOMAIN b THEN b[k] ELSE a[k]]

TriggeredEntry(rule) ==
    [ruleId |-> rule.id, ruleName |-> rule.name,
     severity |-> rule.severityLevel, action |-> rule.actionType]

\* a rule log written with the decision after the rule's action
RuleLogEntry_AfterAction(e, rule, conditionMet) ==
    [ruleId |-> rule.id, userId |-> e.context.user.id,
     moduleName |-> e.context.moduleName, action |-> e.context.action,
     conditionMet |-> conditionMet, actionTaken |-> rule.actionType,
     decision |-> IF conditionMet /\ rule.actionType = "BLOCK" THEN "BLOCKED"
                  ELSE IF conditionMet /\ rule.actionType = "REQUIRE_APPROVAL"
                       THEN "APPROVAL_REQUIRED"
                       ELSE e.finalDecision]

\* logRuleEvaluation: the row handed to prisma.ruleLog.create
RuleLogEntry(e, rule, conditionMet) ==
    [ruleId |-> rule.id, userId |-> e.context.user.id,
     moduleName |-> e.context.moduleName, action |-> e.context.action,
     conditionMet |-> conditionMet, actionTaken |-> rule.actionType,
     decision |-> e.finalDecision]

\* case 'BLOCK' without the return: the loop goes on after a BLOCK
ApplyBlock_NoReturn(e, rule) ==
    [e EXCEPT !.finalDecision = "BLOCKED",
              !.finalMessage = MessageOr(rule, "Action blocked by rule: ")]

\* case 'BLOCK' that hands what the earlier rules accumulated to createResult
ApplyBlock_KeepsAccumulated(e, rule) ==
    LET message == MessageOr(rule, "Action blocked by rule: ")
    IN [e EXCEPT !.pc = "done",
                 !.finalDecision = "BLOCKED",
                 !.finalMessage = message,
                 !.audits = Append(@, AuditEntry(e.context.user.id,
                                       <<"RULE_BLOCKED_", e.context.action>>,
                                       e.context.moduleName, "FAILURE", Null)),
                 !.result = Some(createResult("BLOCKED", e.triggeredRules, e.startTime,
                                              message, Some(e.modifications),
                                              Some(e.requiresApproval), Some(e.approvers)))]

\* case 'BLOCK'
ApplyBlock(e, rule) ==
    LET message == MessageOr(rule, "Action blocked by rule: ")
    IN [e EXCEPT !.pc = "done",
                 !.finalDecision = "BLOCKED",
                 !.finalMessage = message,
                 !.audits = Append(@, AuditEntry(e.context.user.id,
                                       <<"RULE_BLOCKED_", e.context.action>>,
                                       e.context.moduleName, "FAILURE", Null)),
                 !.result = Some(createResult("BLOCKED", e.triggeredRules, e.startTime,
                                              message, Null, Null, Null))]

\* case 'REQUIRE_APPROVAL' that keeps the approvers of the latest rule only
ApplyRequireApproval_LatestOnly(e, rule) ==
    IF e.finalDecision # "BLOCKED"
    THEN [e EXCEPT !.finalDecision = "APPROVAL_REQUIRED",
                   !.requiresApproval = TRUE,
                   !.approvers =
                       IF rule.actionPayload # Null /\ rule.actionPayload[1].approvers # Null
                       THEN rule.actionPayload[1].approvers[1]
                       ELSE @,
                   !.finalMessage = MessageOr(rule, "Approval required by rule: ")]
    ELSE e

\* case 'REQUIRE_APPROVAL'
ApplyRequireApproval(e, rule) ==
    IF e.finalDecision # "BLOCKED"
    THEN [e EXCEPT !.finalDecision = "APPROVAL_REQUIRED",
                   !.requiresApproval = TRUE,
                   !.approvers =
                       IF rule.actionPayload # Null /\ rule.actionPayload[1].approvers # Null
                       THEN Dedup(@ \o rule.actionPayload[1].approvers[1])
                       ELSE @,
                   !.finalMessage = MessageOr(rule, "Approval required by rule: ")]
    ELSE e

\* case 'MODIFY' that yields to an earlier WARNING
ApplyModify_OnlyFromAllowed(e, rule) ==
    [e EXCEPT !.finalDecision = IF @ = "ALLOWED" THEN "MODIFIED" ELSE @,
              !.modifications =
                  IF rule.actionPayload # Null /\ rule.actionPayload[1].modifications # Null
                  THEN Spread(@, rule.actionPayload[1].modifications[1])
                  ELSE @,
              !.finalMessage =
                  IF @ = <<>> THEN MessageOr(rule, "Action modified by rule: ") ELSE @]

\* case 'MODIFY'
ApplyModify(e, rule) ==
    [e EXCEPT !.finalDecision =
                  IF @ # "BLOCKED" /\ @ # "APPROVAL_REQUIRED" THEN "MODIFIED" ELSE @,
              !.modifications =
                  IF rule.actionPayload # Null /\ rule.actionPayload[1].modifications # Null
                  THEN Spread(@, rule.actionPayload[1].modifications[1])
                  ELSE @,
              !.finalMessage =
                  IF @ = <<>> THEN MessageOr(rule, "Action modified by rule: ") ELSE @]

\* case 'WARN' in which every WARN rule rewrites the warning message
ApplyWarn_LastMessage(e, rule) ==
    IF e.finalDecision \in {"ALLOWED", "WARNING"}
    THEN [e EXCEPT !.finalDecision = "WARNING",
                   !.finalMessage = MessageOr(rule, "Warning from rule: ")]
    ELSE e

\* case 'WARN'
ApplyWarn(e, rule) ==
    IF e.finalDecision = "ALLOWED"
    THEN [e EXCEPT !.finalDecision = "WARNING",
                   !.finalMessage = MessageOr(rule, "Warning from rule: ")]
    ELSE e

\* switch (rule.actionType), entered with the rule already in triggeredRules
ApplyAction(e, rule) ==
    CASE rule.actionType = "BLOCK" -> ApplyBlock(e, rule)
      [] rule.actionType = "REQUIRE_APPROVAL" -> ApplyRequireApproval(e, rule)
      [] rule.actionType = "MODIFY" -> ApplyModify(e, rule)
      [] rule.actionType = "WARN" -> ApplyWarn(e, rule)
      [] rule.actionType = "ALLOW" -> e
      [] OTHER -> e

\* an effective-window test that looks at effectiveFrom only
NotEffective_FromOnly(rule, at) == rule.effectiveFrom > at

\* rule.effectiveFrom > now || (rule.effectiveTo && rule.effectiveTo < now)
NotEffective(rule, at) ==
    rule.effectiveFrom > at \/ (rule.effectiveTo # Null /\ rule.effectiveTo[1] < at)

\* a loop that writes a rule log only for the rules that matched
EvalRuleBody_LogMatchesOnly(e) ==
    LET rule == e.rules[e.i]
        at == OrElse(e.context.timestamp, now)
        next == [e EXCEPT !.i = @ + 1]
    IN IF NotEffective(rule, at)
       THEN next
       ELSE LET conditionMet == evaluateCondition(rule.conditionPayload, e.context)
                seen == [next EXCEPT !.examined = Append(@, rule.id)]
            IN IF conditionMet
               THEN ApplyAction([seen EXCEPT
                        !.ruleLogs = Append(@, RuleLogEntry(e, rule, conditionMet)),
                        !.triggeredRules = Append(@, TriggeredEntry(rule))], rule)
               ELSE seen

\* one iteration of the for loop over rules
EvalRuleBody(e) ==
    LET rule == e.rules[e.i]
        at == OrElse(e.context.timestamp, now)
        next == [e EXCEPT !.i = @ + 1]
    IN IF NotEffective(rule, at)
       THEN next
       ELSE LET conditionMet == evaluateCondition(rule.conditionPayload, e.context)
                logged == [next EXCEPT !.ruleLogs = Append(@, RuleLogEntry(e, rule, conditionMet)),
                                       !.examined = Append(@, rule.id)]
            IN IF conditionMet
               THEN ApplyAction([logged EXCEPT !.triggeredRules =
                                     Append(@, TriggeredEntry(rule))], rule)
               ELSE logged

EvalRule(p) ==
    /\ evals[p].pc = "loop"
    /\ evals[p].i <= Len(evals[p].rules)
    /\ evals' = [evals EXCEPT ![p] = EvalRuleBody(@)]
    /\ UNCHANGED <<store, exceptions, rulesCache, now, ops, storeVer, doneVer,
                   cacheVer, cacheReadAt>>

\* the result and the aggregate audit entry after the loop
FinishBody(e) ==
    [e EXCEPT !.pc = "done",
              !.result = Some(createResult(e.finalDecision, e.triggeredRules,
                                e.startTime, e.finalMessage, Some(e.modifications),
                                Some(e.requiresApproval), Some(e.approvers))),
              !.audits = Append(@, AuditEntry(e.context.user.id,
                                    <<"RULE_EVALUATION_", e.context.action>>,
                                    e.context.moduleName, "SUCCESS", Null))]

\* evaluateRules after the loop: createResult, the aggregate audit entry, return
EvalFinish(p) ==
    /\ evals[p].pc = "loop"
    /\ evals[p].i > Len(evals[p].rules)
    /\ evals' = [evals EXCEPT ![p] = FinishBody(@)]
    /\ UNCHANGED <<store, exceptions, rulesCache, now, ops, storeVer, doneVer,
                   cacheVer, cacheReadAt>>

\* the for loop from its current rule to the return of evaluateRules
RECURSIVE RunLoop(_)
RunLoop(e) ==
    IF e.pc # "loop" THEN e
    ELSE IF e.i <= Len(e.rules) THEN RunLoop(EvalRuleBody(e))
    ELSE FinishBody(e)

\* evaluateRules from the exception lookup to its return
Run(e, failed) ==
    IF e.pc = "exception" THEN RunLoop(ExceptionBody(e, failed)) ELSE e

\* EvalStart and, on a cache hit, the rest of the call as one step: the
\* exception rows never change, and past the lookup evaluateRules reads and
\* writes nothing but its own locals
EvalCall(p, context) ==
    /\ evals[p].pc = "idle"
    /\ \E failed \in BOOLEAN :
         evals' = [evals EXCEPT ![p] = Run(StartBody(@, context), failed)]
    /\ UNCHANGED <<store, exceptions, rulesCache, now, ops, storeVer, doneVer,
                   cacheVer, cacheReadAt>>

\* EvalCacheSet and the rest of the call as one step
EvalReturn(p) ==
    /\ evals[p].pc = "set"
    /\ LET e == evals[p]
           m == e.context.moduleName
       IN /\ rulesCache' = [rulesCache EXCEPT ![m] =
                              Some([rules |-> e.fetched, lastUpdated |-> e.queryNow])]
          /\ cacheVer' = [cacheVer EXCEPT ![m] = e.rulesVer]
          /\ cacheReadAt' = [cacheReadAt EXCEPT ![m] = e.rulesReadAt]
          /\ \E failed \in BOOLEAN :
               evals' = [evals EXCEPT ![p] = Run(SetBody(e), failed)]
    /\ UNCHANGED <<store, exceptions, now, ops, storeVer, doneVer>>

\* the setImmediate callbacks the call has queued, in the order it queued
\* them: one per logRuleEvaluation call, then the one of AuditService.log
DeferredTasks(e) ==
    [k \in 1..(Len(e.ruleLogs) + Len(e.audits)) |->
        IF k <= Len(e.ruleLogs)
        THEN [table |-> "ruleLog", row |-> e.ruleLogs[k]]
        ELSE [table |-> "auditLog", row |-> e.audits[k - Len(e.ruleLogs)]]]

\* a deferred write whose failure rejects into the evaluation
LogWriteBody_FailureReachesCall(e, ok) ==
    IF ok
    THEN [e EXCEPT !.ran = @ + 1, !.written = Append(@, DeferredTasks(e)[e.ran + 1])]
    ELSE [e EXCEPT !.ran = @ + 1,
                   !.result = Some([decision |-> "ERROR",
                                    message |-> <<"Rule evaluation failed">>,
                                    triggeredRules |-> <<>>,
                                    modifications |-> Null, requiresApproval |-> Null,
                                    approvers |-> Null,
                                    executionTimeMs |-> e.result[1].executionTimeMs,
                                    error |-> Some("Can't reach database server")])]

\* one setImmediate callback: the create succeeds, or it rejects into the
\* callback's own catch, which reports on the console and returns
LogWriteBody(e, ok) ==
    IF ok
    THEN [e EXCEPT !.ran = @ + 1, !.written = Append(@, DeferredTasks(e)[e.ran + 1])]
    ELSE [e EXCEPT !.ran = @ + 1,
                   !.diagnostics = Append(@, IF DeferredTasks(e)[e.ran + 1].table = "ruleLog"
                                             THEN "Failed to log rule evaluation:"
                                             ELSE "Failed to create audit log:")]

\* the event loop runs the next deferred write of call p.  The callbacks are
\* queued by code that runs, from the last store answer to the return of
\* evaluateRules, without leaving the process, so none runs before the return.
LogWrite(p) ==
    /\ evals[p].pc = "done"
    /\ evals[p].ran < Len(evals[p].ruleLogs) + Len(evals[p].audits)
    /\ \E ok \in BOOLEAN :
         evals' = [evals EXCEPT ![p] = LogWriteBody(@, ok)]
    /\ UNCHANGED <<store, exceptions, rulesCache, now, ops, storeVer, doneVer,
                   cacheVer, cacheReadAt>>

\* getRuleMetrics over the rows of prisma.ruleLog (the counts by decision)
getRuleMetrics(logs) ==
    LET count(d) == Cardinality({j \in 1..Len(logs) : logs[j].decision = d})
    IN [totalEvaluations |-> Len(logs),
        allowedCount |-> count("ALLOWED"),
        blockedCount |-> count("BLOCKED"),
        modifiedCount |-> count("MODIFIED"),
        warningCount |-> count("WARNING"),
        approvalRequiredCount |-> count("APPROVAL_REQUIRED"),
        errorCount |-> count("ERROR")]

\* the rows of prisma.ruleLog the deferred writes of call e have stored
RuleLogRows(e) ==
    LET stored == SelectSeq(e.written, LAMBDA w : w.table = "ruleLog")
    IN [j \in 1..Len(stored) |-> stored[j].row]

\* the wall clock moves on
Tick ==
    /\ \E t \in Times : t > now /\ now' = t
    /\ UNCHANGED <<store, exceptions, rulesCache, evals, ops, storeVer, doneVer,
                   cacheVer, cacheReadAt>>

---------------------------------------------------------------------------
(* Rule lifecycle: createRule *)

\* the data of prisma.rule.create in createRule, with the columns the
\* database fills in (id, version, parentRuleId, createdAt)
NewRule(id, data, createdBy, at) ==
    [id |-> id,
     name |-> data.name,
     moduleName |-> data.moduleName,
     description |-> data.description,
     category |-> data.category,
     conditionType |-> data.conditionType,
     conditionPayload |-> data.conditionPayload,
     actionType |-> data.actionType,
     actionPayload |-> data.actionPayload,
     severityLevel |-> OrElse(data.severityLevel, "MEDIUM"),
     priority |-> IF data.priority = Null \/ data.priority[1] = 0 THEN 100 ELSE data.priority[1],
     isActive |-> OrElse(data.isActive, TRUE),
     effectiveFrom |-> OrElse(data.effectiveFrom, at),
     effectiveTo |-> data.effectiveTo,
     version |-> 1,
     parentRuleId |-> Null,
     createdBy |-> createdBy,
     createdAt |-> at]

\* an idle lifecycle call
IdleOp ==
    [pc |-> "idle", kind |-> "", ruleId |-> 0, data |-> Null,
     existingRule |-> Null, newVersion |-> Null, modules |-> {}, lastVer |-> 0]

\* clearCache(moduleName)
clearCache(cache, moduleName) == [cache EXCEPT ![moduleName] = Null]

\* clearCache for each module of a set (affectedModules.forEach)
RECURSIVE clearCacheAll(_, _)
clearCacheAll(cache, moduleNames) ==
    IF moduleNames = {} THEN cache
    ELSE LET m == CHOOSE x \in moduleNames : TRUE
         IN clearCacheAll(clearCache(cache, m), moduleNames \ {m})

\* createRule up to the end of its await on prisma.rule.create
CreateRuleInsert(w, data) ==
    /\ ops[w].pc = "idle"
    /\ Len(store) < MaxStore
    /\ storeVer < MaxWrites
    /\ store' = Append(store, NewRule(Len(store) + 1, data, "admin", now))
    /\ storeVer' = storeVer + 1
    /\ ops' = [ops EXCEPT ![w] =
                 [IdleOp EXCEPT !.pc = "clear", !.kind = "createRule",
                                !.ruleId = Len(store) + 1,
                                !.modules = {data.moduleName},
                                !.lastVer = storeVer + 1]]
    /\ UNCHANGED <<exceptions, rulesCache, now, evals, doneVer, cacheVer, cacheReadAt>>

\* updateRule: prisma.rule.findUnique answers with the existing rule
\* (an unknown id throws 'Rule not found' and changes nothing)
UpdateRuleFind(w, ruleId, data) ==
    /\ ops[w].pc = "idle"
    /\ ruleId \in 1..Len(store)
    /\ Len(store) < MaxStore
    /\ storeVer + 2 <= MaxWrites
    /\ ops' = [ops EXCEPT ![w] =
                 [IdleOp EXCEPT !.pc = "update.create", !.kind = "updateRule",
                                !.ruleId = ruleId, !.data = Some(data),
                                !.existingRule = Some(store[ruleId]),
                                !.modules = {store[ruleId].moduleName}]]
    /\ UNCHANGED <<store, exceptions, rulesCache, now, evals, storeVer, doneVer,
                   cacheVer, cacheReadAt>>

\* a new version that keeps the version number of the existing rule
NewVersion_SameVersion(id, ruleId, existingRule, data, updatedBy, at) ==
    [id |-> id, name |-> OrElse(data.name, existingRule.name),
     moduleName |-> existingRule.moduleName,
     description |-> IF data.description = Null THEN existingRule.description
                     ELSE data.description,
     category |-> existingRule.category,
     conditionType |-> existingRule.conditionType,
     conditionPayload |-> OrElse(data.conditionPayload, existingRule.conditionPayload),
     actionType |-> existingRule.actionType,
     actionPayload |-> IF data.actionPayload = Null THEN existingRule.actionPayload
                       ELSE data.actionPayload,
     severityLevel |-> OrElse(data.severityLevel, existingRule.severityLevel),
     priority |-> OrElse(data.priority, existingRule.priority),
     isActive |-> OrElse(data.isActive, existingRule.isActive),
     effectiveFrom |-> OrElse(data.effectiveFrom, existingRule.effectiveFrom),
     effectiveTo |-> data.effectiveTo,
     version |-> existingRule.version,
     parentRuleId |-> Some(ruleId),
     createdBy |-> updatedBy,
     createdAt |-> at]

\* the data of prisma.rule.create in updateRule, with the columns the
\* database fills in (id, createdAt)
NewVersion(id, ruleId, existingRule, data, updatedBy, at) ==
    [id |-> id,
     name |-> OrElse(data.name, existingRule.name),
     moduleName |-> existingRule.moduleName,
     description |-> IF data.description = Null THEN existingRule.description
                     ELSE data.description,
     category |-> existingRule.category,
     conditionType |-> existingRule.conditionType,
     conditionPayload |-> OrElse(data.conditionPayload, existingRule.conditionPayload),
     actionType |-> existingRule.actionType,
     actionPayload |-> IF data.actionPayload = Null THEN existingRule.actionPayload
                       ELSE data.actionPayload,
     severityLevel |-> OrElse(data.severityLevel, existingRule.severityLevel),
     priority |-> OrElse(data.priority, existingRule.priority),
     isActive |-> OrElse(data.isActive, existingRule.isActive),
     effectiveFrom |-> OrElse(data.effectiveFrom, existingRule.effectiveFrom),
     effectiveTo |-> data.effectiveTo,
     version |-> existingRule.version + 1,
     parentRuleId |-> Some(ruleId),
     createdBy |-> updatedBy,
     createdAt |-> at]

\* updateRule: the store inserts the new version
UpdateRuleCreate(w) ==
    /\ ops[w].pc = "update.create"
    /\ Len(store) < MaxStore
    /\ storeVer < MaxWrites
    /\ store' = Append(store, NewVersion(Len(store) + 1, ops[w].ruleId,
                                         ops[w].existingRule[1], ops[w].data[1],
                                         "admin", now))
    /\ storeVer' = storeVer + 1
    /\ ops' = [ops EXCEPT ![w].pc = "update.deactivate",
                          ![w].newVersion = Some(store'[Len(store')])]
    /\ UNCHANGED <<exceptions, rulesCache, now, evals, doneVer, cacheVer, cacheReadAt>>

\* updateRule: the store deactivates the old version
UpdateRuleDeactivate(w) ==
    /\ ops[w].pc = "update.deactivate"
    /\ storeVer < MaxWrites
    /\ store' = [store EXCEPT ![ops[w].ruleId].isActive = FALSE]
    /\ storeVer' = storeVer + 1
    /\ ops' = [ops EXCEPT ![w].pc = "clear", ![w].lastVer = storeVer + 1]
    /\ UNCHANGED <<exceptions, rulesCache, now, evals, doneVer, cacheVer, cacheReadAt>>

\* toggleRuleStatus up to the end of its await on prisma.rule.update
\* (findUnique reads only the moduleName, which no operation changes)
ToggleRuleStatus(w, ruleId, isActive) ==
    /\ ops[w].pc = "idle"
    /\ ruleId \in 1..Len(store)
    /\ storeVer < MaxWrites
    /\ store' = [store EXCEPT ![ruleId].isActive = isActive]
    /\ storeVer' = storeVer + 1
    /\ ops' = [ops EXCEPT ![w] =
                 [IdleOp EXCEPT !.pc = "clear", !.kind = "toggleRuleStatus",
                                !.ruleId = ruleId,
                                !.modules = {store[ruleId].moduleName},
                                !.lastVer = storeVer + 1]]
    /\ UNCHANGED <<exceptions, rulesCache, now, evals, doneVer, cacheVer, cacheReadAt>>

\* tx.rule.update of bulkUpdateRules for one update: an undefined field is
\* left as it is, an unknown rule id is passed over
ApplyBulkUpdate(rows, update) ==
    IF update.ruleId \in 1..Len(rows)
    THEN [rows EXCEPT ![update.ruleId].isActive = OrElse(update.isActive, @),
                      ![update.ruleId].priority = OrElse(update.priority, @)]
    ELSE rows

RECURSIVE ApplyBulkUpdates(_, _)
ApplyBulkUpdates(rows, updates) ==
    IF Len(updates) = 0 THEN rows
    ELSE ApplyBulkUpdates(ApplyBulkUpdate(rows, updates[1]), Tail(updates))

\* bulkUpdateRules up to the commit of its transaction
BulkUpdateRules(w, updates) ==
    /\ ops[w].pc = "idle"
    /\ storeVer < MaxWrites
    /\ store' = ApplyBulkUpdates(store, updates)
    /\ storeVer' = storeVer + 1
    /\ ops' = [ops EXCEPT ![w] =
                 [IdleOp EXCEPT !.pc = "clear", !.kind = "bulkUpdateRules",
                                !.modules = {store[updates[k].ruleId].moduleName :
                                               k \in {j \in 1..Len(updates) :
                                                        updates[j].ruleId \in 1..Len(store)}},
                                !.lastVer = storeVer + 1]]
    /\ UNCHANGED <<exceptions, rulesCache, now, evals, doneVer, cacheVer, cacheReadAt>>

\* the end of each of the four calls: clearCache for the affected modules,
\* the audit entry, return
ClearCacheAndReturn(w) ==
    /\ ops[w].pc = "clear"
    /\ rulesCache' = clearCacheAll(rulesCache, ops[w].modules)
    /\ doneVer' = [m \in Modules |->
                     IF m \in ops[w].modules /\ ops[w].lastVer > doneVer[m]
                     THEN ops[w].lastVer ELSE doneVer[m]]
    /\ ops' = [ops EXCEPT ![w] = IdleOp]
    /\ UNCHANGED <<store, exceptions, now, evals, storeVer, cacheVer, cacheReadAt>>

---------------------------------------------------------------------------
(* Inputs *)

Payload(message, modifications, approvers) ==
    Some([message |-> message, modifications |-> modifications, approvers |-> approvers])

\* actionType with an actionPayload that fits it
Actions ==
    { <<"BLOCK", Payload(Some("blocked"), Null, Null)>>,
      <<"REQUIRE_APPROVAL", Payload(Null, Null, Some(<<"head">>))>>,
      <<"REQUIRE_APPROVAL", Payload(Some("needs approval"), Null, Some(<<"dean", "head">>))>>,
      <<"MODIFY", Payload(Some("modified"), Some([percentage |-> 100, status |-> 1]), Null)>>,
      <<"MODIFY", Payload(Null, Some([percentage |-> 50]), Null)>>,
      <<"WARN", Payload(Some("low grade"), Null, Null)>>,
      <<"WARN", Null>>,
      <<"ALLOW", Null>> }

\* percentage < 40
CondLow ==
    [type |-> "threshold", field |-> "percentage", operator |-> "lt", value |-> Num(40)]

\* the user is an administrator
CondAdmin == [type |-> "role_based", roles |-> {"ADMIN"}]

Teacher == [id |-> "u1", roles |-> {"TEACHER"}, permissions |-> {"attendance.create"}]

\* the context of scenario A of the specification: percentage = 30
Contexts ==
    { [user |-> Teacher, action |-> "SUBMIT", moduleName |-> "attendance",
       resourceData |-> [percentage |-> Num(30)], timestamp |-> ts] :
      ts \in {Null, Some(1)} }

\* contexts without a user id, without a module name, without an action
InvalidContexts ==
    { [user |-> [Teacher EXCEPT !.id = uid], action |-> a, moduleName |-> m,
       resourceData |-> [percentage |-> Num(30)], timestamp |-> Null] :
      <<uid, m, a>> \in { <<"", "attendance", "SUBMIT">>,
                          <<"u1", "", "SUBMIT">>,
                          <<"u1", "attendance", "">> } }

RuleDTO(name, moduleName, condition, action, priority, isActive, effectiveFrom, effectiveTo) ==
    [name |-> name, moduleName |-> moduleName, description |-> Null,
     category |-> "ACADEMIC",
     conditionType |-> IF condition.type = "threshold" THEN "THRESHOLD" ELSE "ROLE_BASED",
     conditionPayload |-> condition,
     actionType |-> action[1], actionPayload |-> action[2],
     severityLevel |-> Null, priority |-> priority, isActive |-> isActive,
     effectiveFrom |-> effectiveFrom, effectiveTo |-> effectiveTo]

\* the rules of the single-evaluation specification: every action, with a
\* condition that holds or not in Contexts, open-ended or ending at time 0
\* (over at the timestamp 1 of a context); the k-th rule has priority 10 * k
EvalDTOs(k) ==
    { RuleDTO("rule", "attendance", cw[1], a, Some(10 * k), Null, Null, cw[2]) :
        a \in Actions,
        cw \in {<<CondLow, Null>>, <<CondAdmin, Null>>, <<CondLow, Some(0)>>} }

ExceptionRows ==
    [userId : {"u1"}, ruleId : {2}, isActive : {TRUE},
     effectiveFrom : {0, 1}, effectiveTo : {CACHE_TTL}]

RECURSIVE RuleListsOf(_)
RuleListsOf(n) ==
    IF n = 0 THEN {<<>>}
    ELSE {Append(rows, NewRule(n, dto, "admin", 0)) :
            rows \in RuleListsOf(n - 1), dto \in EvalDTOs(n)}

---------------------------------------------------------------------------
(* Single-evaluation specification: one evaluateRules call over any store of
   at most MaxRules rules of one module, with at most one exception row *)

EvalInit ==
    /\ store \in UNION {RuleListsOf(n) : n \in 0..MaxRules}
    /\ exceptions \in {{}} \cup {{x} : x \in ExceptionRows}
    /\ rulesCache = [m \in Modules |-> Null]
    /\ now = 0
    /\ evals = [p \in Evaluators |-> IdleEval]
    /\ ops = [w \in Writers |-> IdleOp]
    /\ storeVer = 0
    /\ doneVer = [m \in Modules |-> 0]
    /\ cacheVer = [m \in Modules |-> 0]
    /\ cacheReadAt = [m \in Modules |-> 0]

EvalNext ==
    \/ \E context \in Contexts \cup InvalidContexts : EvalStart("e1", context)
    \/ EvalQuery("e1")
    \/ EvalCacheSet("e1")
    \/ EvalException("e1")
    \/ EvalRule("e1")
    \/ EvalFinish("e1")

EvalSpec == EvalInit /\ [][EvalNext]_vars

\* the same call together with the deferred log writes it leaves behind
LogNext ==
    \/ \E context \in Contexts \cup InvalidContexts : EvalStart("e1", context)
    \/ EvalQuery("e1")
    \/ EvalCacheSet("e1")
    \/ EvalException("e1")
    \/ EvalRule("e1")
    \/ EvalFinish("e1")
    \/ LogWrite("e1")

LogSpec == EvalInit /\ [][LogNext]_vars

---------------------------------------------------------------------------
(* Condition specification: one evaluateRules call over rules whose
   conditions are well-formed or malformed in each of the ways the condition
   evaluator guards against, for a user with and without roles *)

CondNoType == [field |-> "percentage", operator |-> "lt", value |-> Num(40)]

CondUnknownType == [type |-> "regex", field |-> "percentage", value |-> Num(40)]

CondBadOperator ==
    [type |-> "threshold", field |-> "percentage", operator |-> "below", value |-> Num(40)]

\* timeRange {start: "9am", end: "17:00"}
CondBadTime ==
    [type |-> "time_based",
     timeRange |-> [start |-> <<Null>>, end |-> <<Some(17), Some(0)>>]]

\* timeRange {end: "17:00"}
CondNoTimeStart == [type |-> "time_based", timeRange |-> [end |-> <<Some(17), Some(0)>>]]

\* dateRange {start: "soon", end: <time 1>}
CondBadDate == [type |-> "time_based", dateRange |-> [start |-> Null, end |-> Some(1)]]

CondBadExpression == [type |-> "expression", expression |-> "data.percentage <"]

CondFailingExpression == [type |-> "expression", expression |-> "data.owner.id == 1"]

CondTeacher == [type |-> "role_based", roles |-> {"TEACHER"}]

\* timeRange {start: "00:00", end: "23:59"}
CondAllDay ==
    [type |-> "time_based",
     timeRange |-> [start |-> <<Some(0), Some(0)>>, end |-> <<Some(23), Some(59)>>]]

CondExpressionLow == [type |-> "expression", expression |-> "data.percentage < 40"]

CondAndFailingChild ==
    [type |-> "composite", logic |-> "AND", conditions |-> <<CondLow, CondBadOperator>>]

CondOrFailingChild ==
    [type |-> "composite", logic |-> "OR", conditions |-> <<CondTeacher, CondLow>>]

MalformedConditions ==
    {CondNoType, CondUnknownType, CondBadOperator, CondBadTime, CondNoTimeStart,
     CondBadDate, CondBadExpression, CondFailingExpression, CondAndFailingChild}

ConditionInputs ==
    MalformedConditions
        \cup {CondLow, CondTeacher, CondAllDay, CondExpressionLow, CondOrFailingChild}

ConditionActions ==
    { <<"BLOCK", Payload(Some("blocked"), Null, Null)>>,
      <<"MODIFY", Payload(Null, Some([percentage |-> 50]), Null)>>,
      <<"REQUIRE_APPROVAL", Payload(Null, Null, Some(<<"head">>))>> }

ConditionDTOs(k) ==
    { [RuleDTO("rule", "attendance", CondLow, a, Some(10 * k), Null, Null, Null)
         EXCEPT !.conditionPayload = c, !.conditionType = "THRESHOLD"] :
        a \in ConditionActions, c \in ConditionInputs }

RECURSIVE ConditionListsOf(_)
ConditionListsOf(n) ==
    IF n = 0 THEN {<<>>}
    ELSE {Append(rows, NewRule(n, dto, "admin", 0)) :
            rows \in ConditionListsOf(n - 1), dto \in ConditionDTOs(n)}

\* the teacher of Contexts, and a caller whose user object carries no roles
ConditionContexts ==
    { [user |-> u, action |-> "SUBMIT", moduleName |-> "attendance",
       resourceData |-> [percentage |-> Num(30)], timestamp |-> Null] :
      u \in {Teacher, [id |-> "u2", permissions |-> {}]} }

ConditionInit ==
    /\ store \in UNION {ConditionListsOf(n) : n \in 1..MaxRules}
    /\ exceptions = {}
    /\ rulesCache = [m \in Modules |-> Null]
    /\ now = 0
    /\ evals = [p \in Evaluators |-> IdleEval]
    /\ ops = [w \in Writers |-> IdleOp]
    /\ storeVer = 0
    /\ doneVer = [m \in Modules |-> 0]
    /\ cacheVer = [m \in Modules |-> 0]
    /\ cacheReadAt = [m \in Modules |-> 0]

ConditionNext ==
    \/ \E context \in ConditionContexts : EvalStart("e1", context)
    \/ EvalQuery("e1")
    \/ EvalCacheSet("e1")
    \/ EvalException("e1")
    \/ EvalRule("e1")
    \/ EvalFinish("e1")

ConditionSpec == ConditionInit /\ [][ConditionNext]_vars

---------------------------------------------------------------------------
(* Engine specification: two evaluateRules calls running concurrently with
   the createRule and updateRule calls of one administrator and the clock,
   over one module; toggleRuleStatus and bulkUpdateRules run in the
   lifecycle specification *)

UpdateDTO(priority, isActive) ==
    [name |-> Null, description |-> Null, conditionPayload |-> Null,
     actionPayload |-> Null, severityLevel |-> Null, priority |-> priority,
     isActive |-> isActive, effectiveFrom |-> Null, effectiveTo |-> Null]

\* WARN rules on percentage < 40, with the default or a raised priority,
\* open-ended or ending at time 1
SpecDTOs ==
    { RuleDTO("rule", "attendance", CondLow, <<"WARN", Null>>, priority, Null, Null, to) :
        priority \in {Null}, to \in {Null, Some(1)} }

SpecUpdateDTOs == {UpdateDTO(Null, Null)}

SpecBulkUpdates ==
    {<<[ruleId |-> id, isActive |-> Null, priority |-> Some(200)]>> : id \in 1..MaxStore}

SpecContexts ==
    { [user |-> Teacher, action |-> "SUBMIT", moduleName |-> "attendance",
       resourceData |-> [percentage |-> Num(30)], timestamp |-> ts] :
      ts \in {Some(1)} }

\* the engine specification stays within its own, smaller budget of rows and
\* writes: the next call may write k times
EngineBudget(k) == Len(store) < MaxEngineStore /\ storeVer + k <= MaxEngineWrites

Init ==
    /\ store = <<>>
    /\ exceptions = {}
    /\ rulesCache = [m \in Modules |-> Null]
    /\ now = 0
    /\ evals = [p \in Evaluators |-> IdleEval]
    /\ ops = [w \in Writers |-> IdleOp]
    /\ storeVer = 0
    /\ doneVer = [m \in Modules |-> 0]
    /\ cacheVer = [m \in Modules |-> 0]
    /\ cacheReadAt = [m \in Modules |-> 0]

Next ==
    \/ \E context \in SpecContexts : EvalCall("e1", context)
    \/ \E context \in SpecContexts : evals["e1"].pc # "idle" /\ EvalCall("e2", context)
    \/ \E p \in Evaluators : EvalQuery(p)
    \/ \E p \in Evaluators : EvalReturn(p)
    \/ Tick
    \/ \E data \in SpecDTOs : EngineBudget(1) /\ CreateRuleInsert("w1", data)
    \/ \E id \in 1..MaxEngineStore, data \in SpecUpdateDTOs :
          EngineBudget(2) /\ UpdateRuleFind("w1", id, data)
    \/ UpdateRuleCreate("w1")
    \/ UpdateRuleDeactivate("w1")
    \/ ClearCacheAndReturn("w1")

Spec == Init /\ [][Next]_vars

---------------------------------------------------------------------------
(* Snapshot specification: two evaluateRules calls taken step by step, from
   one store answer to the next, while an administrator creates rules and
   clears the cache *)

SnapshotNext ==
    \/ \E p \in Evaluators, context \in SpecContexts : EvalStart(p, context)
    \/ \E p \in Evaluators : EvalQuery(p)
    \/ \E p \in Evaluators : EvalCacheSet(p)
    \/ \E p \in Evaluators : EvalException(p)
    \/ \E p \in Evaluators : EvalRule(p)
    \/ \E p \in Evaluators : EvalFinish(p)
    \/ \E data \in SpecDTOs : EngineBudget(1) /\ CreateRuleInsert("w1", data)
    \/ ClearCacheAndReturn("w1")

SnapshotSpec == Init /\ [][SnapshotNext]_vars

---------------------------------------------------------------------------
(* Exception specification: two evaluateRules calls with the same context
   over the same rules, while exception rows that do not cover the caller
   come and go in the store *)

MaxExceptions == 2

ExceptionDTOs(k) ==
    { RuleDTO("rule", "attendance", CondLow, a, Some(10 * k), Null, Null, Null) :
        a \in {<<"BLOCK", Payload(Some("blocked"), Null, Null)>>, <<"WARN", Null>>} }

RECURSIVE ExceptionRuleListsOf(_)
ExceptionRuleListsOf(n) ==
    IF n = 0 THEN {<<>>}
    ELSE {Append(rows, NewRule(n, dto, "admin", 0)) :
            rows \in ExceptionRuleListsOf(n - 1), dto \in ExceptionDTOs(n)}

\* an active row of the caller u1 for the second rule of the module, in its
\* window at time 0
CoveringRow ==
    [userId |-> "u1", ruleId |-> 2, isActive |-> TRUE,
     effectiveFrom |-> 0, effectiveTo |-> CACHE_TTL]

\* that row, and the rows that differ from it in one column: another user,
\* not active, a window that has not begun, a rule of no module
AllExceptionRows ==
    { CoveringRow,
      [CoveringRow EXCEPT !.userId = "u2"],
      [CoveringRow EXCEPT !.isActive = FALSE],
      [CoveringRow EXCEPT !.effectiveFrom = 1],
      [CoveringRow EXCEPT !.ruleId = 3] }

ExceptionSets == {xs \in SUBSET AllExceptionRows : Cardinality(xs) <= MaxExceptions}

ExceptionContext ==
    [user |-> Teacher, action |-> "SUBMIT", moduleName |-> "attendance",
     resourceData |-> [percentage |-> Num(30)], timestamp |-> Null]

\* the row belongs to the caller, is active, is in its window now, and is
\* for an active rule of the module that is in effect now
CoversCaller(x) ==
    /\ x.userId = ExceptionContext.user.id
    /\ x.isActive
    /\ x.effectiveFrom <= now /\ now <= x.effectiveTo
    /\ \E k \in 1..Len(store) :
          /\ store[k].id = x.ruleId
          /\ store[k].moduleName = ExceptionContext.moduleName
          /\ store[k].isActive
          /\ ~NotEffective(store[k], now)

\* prisma.ruleException rows are created, changed and removed; the rows that
\* cover the caller stay as they are
ChangeExceptions ==
    /\ \E xs \in ExceptionSets :
         /\ xs # exceptions
         /\ {x \in xs : CoversCaller(x)} = {x \in exceptions : CoversCaller(x)}
         /\ exceptions' = xs
    /\ UNCHANGED <<store, rulesCache, now, evals, ops, storeVer, doneVer,
                   cacheVer, cacheReadAt>>

ExceptionInit ==
    /\ store \in UNION {ExceptionRuleListsOf(n) : n \in 1..MaxRules}
    /\ exceptions \in ExceptionSets
    /\ rulesCache = [m \in Modules |-> Null]
    /\ now = 0
    /\ evals = [p \in Evaluators |-> IdleEval]
    /\ ops = [w \in Writers |-> IdleOp]
    /\ storeVer = 0
    /\ doneVer = [m \in Modules |-> 0]
    /\ cacheVer = [m \in Modules |-> 0]
    /\ cacheReadAt = [m \in Modules |-> 0]

ExceptionNext ==
    \/ EvalStart("e1", ExceptionContext)
    \/ evals["e1"].pc = "done" /\ EvalStart("e2", ExceptionContext)
    \/ \E p \in Evaluators : EvalQuery(p)
    \/ \E p \in Evaluators : EvalCacheSet(p)
    \/ \E p \in Evaluators : EvalException(p)
    \/ \E p \in Evaluators : EvalRule(p)
    \/ \E p \in Evaluators : EvalFinish(p)
    \/ evals["e1"].pc = "done" /\ evals["e2"].pc = "idle" /\ ChangeExceptions

ExceptionSpec == ExceptionInit /\ [][ExceptionNext]_vars

---------------------------------------------------------------------------
(* Threshold specification: one evaluateRules call over a single rule with
   a threshold condition, for every operator, bound and field value of a
   bounded set *)

ThresholdOperators ==
    {"eq", "ne", "gt", "gte", "lt", "lte", "in", "nin", "contains", "between", "like"}

ThresholdValues ==
    { Num(30), Num(40), Str("30"), Str("abc"), Nul,
      Arr(<<>>), Arr(<<Num(30)>>), Arr(<<Num(30), Num(40)>>), Arr(<<Num(40), Num(30)>>),
      Arr(<<Str("30"), Num(40)>>), Arr(<<Num(20), Num(30), Num(40)>>) }

\* threshold conditions on the field percentage (contains with scalar bounds
\* only), and conditions without field, without operator, without value
ThresholdConditions ==
    { [type |-> "threshold", field |-> "percentage", operator |-> op, value |-> v] :
        op \in ThresholdOperators \ {"contains"}, v \in ThresholdValues }
    \cup { [type |-> "threshold", field |-> "percentage", operator |-> "contains", value |-> v] :
             v \in {x \in ThresholdValues : x.t # "array"} }
    \cup { [type |-> "threshold", operator |-> op, value |-> Num(30)] : op \in {"ne", "nin"} }
    \cup { [type |-> "threshold", field |-> "percentage", value |-> Num(30)],
           [type |-> "threshold", field |-> "percentage", operator |-> "ne"] }

\* resourceData without the field, with the field null, and with a number
\* or a string in it
ThresholdData ==
    { [other |-> Num(30)] }
    \cup { [percentage |-> x] :
             x \in {Nul, Num(20), Num(30), Num(40), Num(50), Str("30"), Str("ABC"), Str("")} }

ThresholdContexts ==
    { [user |-> Teacher, action |-> "SUBMIT", moduleName |-> "attendance",
       resourceData |-> data, timestamp |-> Null] : data \in ThresholdData }

ThresholdInit ==
    /\ store \in { <<NewRule(1, RuleDTO("rule", "attendance", c, <<"WARN", Null>>,
                                        Some(10), Null, Null, Null), "admin", 0)>> :
                      c \in ThresholdConditions }
    /\ exceptions = {}
    /\ rulesCache = [m \in Modules |-> Null]
    /\ now = 0
    /\ evals = [p \in Evaluators |-> IdleEval]
    /\ ops = [w \in Writers |-> IdleOp]
    /\ storeVer = 0
    /\ doneVer = [m \in Modules |-> 0]
    /\ cacheVer = [m \in Modules |-> 0]
    /\ cacheReadAt = [m \in Modules |-> 0]

ThresholdNext ==
    \/ \E context \in ThresholdContexts : EvalStart("e1", context)
    \/ EvalQuery("e1")
    \/ EvalCacheSet("e1")
    \/ EvalException("e1")
    \/ EvalRule("e1")
    \/ EvalFinish("e1")

ThresholdSpec == ThresholdInit /\ [][ThresholdNext]_vars

---------------------------------------------------------------------------
(* Composite specification: one evaluateRules call over a single rule with
   a composite condition, nested up to MaxDepth, with up to MaxChildren
   children that hold, do not hold or fail *)

MaxChildren == 2

MaxDepth == 3

\* a composite condition; logic "" stands for a condition without logic
Composite(logic, children) ==
    IF logic = ""
    THEN [type |-> "composite", conditions |-> children]
    ELSE [type |-> "composite", logic |-> logic, conditions |-> children]

\* children that hold for the teacher of the model (CondLow, CondTeacher),
\* that do not (CondAdmin) and that fail (CondBadOperator; CondTeacher for a
\* user without roles)
CompositeLeaves == {CondLow, CondAdmin, CondTeacher, CondBadOperator}

\* composites of depth d used as children
RECURSIVE Nested(_)
Nested(d) ==
    IF d = 0 THEN {}
    ELSE { Composite(logic, <<CondLow, inner>>) :
             logic \in {"AND", "OR"}, inner \in {CondAdmin} \cup Nested(d - 1) }

ChildLists(children, n) == UNION {[1..k -> children] : k \in 0..n}

CompositeConditions ==
    { Composite(logic, children) :
        logic \in {"", "AND", "OR"},
        children \in ChildLists(CompositeLeaves \cup Nested(MaxDepth - 1), MaxChildren) }
    \cup { [type |-> "composite"], [type |-> "composite", logic |-> "OR"] }

CompositeInit ==
    /\ store \in { <<NewRule(1, RuleDTO("rule", "attendance", c, <<"WARN", Null>>,
                                        Some(10), Null, Null, Null), "admin", 0)>> :
                      c \in CompositeConditions }
    /\ exceptions = {}
    /\ rulesCache = [m \in Modules |-> Null]
    /\ now = 0
    /\ evals = [p \in Evaluators |-> IdleEval]
    /\ ops = [w \in Writers |-> IdleOp]
    /\ storeVer = 0
    /\ doneVer = [m \in Modules |-> 0]
    /\ cacheVer = [m \in Modules |-> 0]
    /\ cacheReadAt = [m \in Modules |-> 0]

CompositeNext ==
    \/ \E context \in ConditionContexts : EvalStart("e1", context)
    \/ EvalQuery("e1")
    \/ EvalCacheSet("e1")
    \/ EvalException("e1")
    \/ EvalRule("e1")
    \/ EvalFinish("e1")

CompositeSpec == CompositeInit /\ [][CompositeNext]_vars

---------------------------------------------------------------------------
(* Lifecycle specification: createRule, updateRule, toggleRuleStatus and
   bulkUpdateRules calls of two administrators running concurrently *)

LifecycleUpdateDTOs == {UpdateDTO(Null, isActive) : isActive \in {Null, Some(TRUE)}}

LifecycleNext ==
    \/ \E w \in Writers, data \in SpecDTOs : CreateRuleInsert(w, data)
    \/ \E w \in Writers, id \in 1..MaxStore, data \in LifecycleUpdateDTOs :
          UpdateRuleFind(w, id, data)
    \/ \E w \in Writers : UpdateRuleCreate(w)
    \/ \E w \in Writers : UpdateRuleDeactivate(w)
    \/ \E w \in Writers, id \in 1..MaxStore, isActive \in BOOLEAN :
          ToggleRuleStatus(w, id, isActive)
    \/ \E w \in Writers, updates \in SpecBulkUpdates : BulkUpdateRules(w, updates)
    \/ \E w \in Writers : ClearCacheAndReturn(w)
    \/ Tick

LifecycleSpec == Init /\ [][LifecycleNext]_vars

---------------------------------------------------------------------------
(* Vocabulary of the properties *)

\* effectiveFrom <= t and effectiveTo unset or >= t
EffectiveAt(rule, t) ==
    rule.effectiveFrom <= t /\ (rule.effectiveTo = Null \/ rule.effectiveTo[1] >= t)

\* the time the rule loop of call e compares effective windows with
EvaluationTime(e) == IF e.context.timestamp = Null THEN now ELSE e.context.timestamp[1]

\* the store holds an exception of the caller that is active, in its window
\* when looked up, and covers a rule of the list the call obtained
ExceptionApplies(e) ==
    \E x \in exceptions :
        /\ x.userId = e.context.user.id
        /\ x.isActive
        /\ x.effectiveFrom <= e.exceptionAt /\ e.exceptionAt <= x.effectiveTo
        /\ \E k \in 1..Len(e.rules) : e.rules[k].id = x.ruleId

\* the call has entered its rule loop
InLoop(e) == e.i >= 1

\* positions in the obtained list of the rules with an entry in triggeredRules
TriggeredAt(e) ==
    {k \in 1..Len(e.rules) :
        \E j \in 1..Len(e.triggeredRules) : e.triggeredRules[j].ruleId = e.rules[k].id}

Min(S) == CHOOSE x \in S : \A y \in S : x <= y

Max(S) == CHOOSE x \in S : \A y \in S : x >= y

\* the fixed ranking BLOCK > REQUIRE_APPROVAL > MODIFY > WARN > ALLOW
ActionRank(actionType) ==
    CASE actionType = "BLOCK" -> 4
      [] actionType = "REQUIRE_APPROVAL" -> 3
      [] actionType = "MODIFY" -> 2
      [] actionType = "WARN" -> 1
      [] OTHER -> 0

DecisionOfRank(r) ==
    CASE r = 4 -> "BLOCKED"
      [] r = 3 -> "APPROVAL_REQUIRED"
      [] r = 2 -> "MODIFIED"
      [] r = 1 -> "WARNING"
      [] OTHER -> "ALLOWED"

StrongestDecision(triggeredRules) ==
    DecisionOfRank(Max({0} \cup {ActionRank(triggeredRules[j].action) :
                                    j \in 1..Len(triggeredRules)}))

---------------------------------------------------------------------------
(* C1 *)

\* positions of the active, effective, matching BLOCK rules of the obtained list
BlockingAt(e) ==
    {k \in 1..Len(e.rules) :
        /\ e.rules[k].isActive
        /\ EffectiveAt(e.rules[k], EvaluationTime(e))
        /\ evaluateCondition(e.rules[k].conditionPayload, e.context)
        /\ e.rules[k].actionType = "BLOCK"}

\* C1: when a call whose rule fetch succeeded and to which no exception
\* applies has returned, and its rule list holds an active, effective,
\* matching BLOCK rule, the decision is BLOCKED and no rule after the first
\* such rule was examined, logged or listed in triggeredRules.
C1_BlockStopsEvaluation ==
    \A p \in Evaluators :
        LET e == evals[p]
        IN (e.pc = "done" /\ e.result[1].decision # "ERROR"
              /\ ~ExceptionApplies(e) /\ BlockingAt(e) # {})
           => /\ e.result[1].decision = "BLOCKED"
              /\ \A k \in 1..Len(e.rules) :
                    k > Min(BlockingAt(e)) =>
                       /\ \A j \in 1..Len(e.examined) : e.examined[j] # e.rules[k].id
                       /\ \A j \in 1..Len(e.ruleLogs) : e.ruleLogs[j].ruleId # e.rules[k].id
                       /\ \A j \in 1..Len(e.result[1].triggeredRules) :
                             e.result[1].triggeredRules[j].ruleId # e.rules[k].id

\* a call returned BLOCKED from a BLOCK rule that is followed by a matching rule
C1_Witness ==
    \E p \in Evaluators :
        LET e == evals[p]
        IN /\ e.pc = "done"
           /\ e.result[1].decision = "BLOCKED"
           /\ BlockingAt(e) # {}
           /\ \E k \in 1..Len(e.rules) :
                 /\ k > Min(BlockingAt(e))
                 /\ EffectiveAt(e.rules[k], EvaluationTime(e))
                 /\ evaluateCondition(e.rules[k].conditionPayload, e.context)

---------------------------------------------------------------------------
(* C2 *)

\* C2: at every step of a call the running decision is the one of the
\* strongest action among the rules triggered so far, and a returned
\* decision other than ERROR is the running decision.
C2_DecisionIsStrongestAction ==
    \A p \in Evaluators :
        LET e == evals[p]
        IN /\ e.finalDecision = StrongestDecision(e.triggeredRules)
           /\ (e.pc = "done" /\ e.result[1].decision # "ERROR")
                 => /\ e.result[1].decision = e.finalDecision
                    /\ e.result[1].triggeredRules = e.triggeredRules

\* scenario B: a WARN rule triggered, then a MODIFY rule, and the call
\* returned MODIFIED
C2_Witness ==
    \E p \in Evaluators :
        LET e == evals[p]
        IN /\ e.pc = "done"
           /\ Len(e.triggeredRules) = 2
           /\ e.triggeredRules[1].action = "WARN"
           /\ e.triggeredRules[2].action = "MODIFY"
           /\ e.result[1].decision = "MODIFIED"

---------------------------------------------------------------------------
(* C3 *)

\* call e holds the rule list getCachedRules returned to it
Obtained(e) == e.fromCache \/ (e.queried /\ e.pc # "set")

\* C3: the rule list a call evaluates was read from the store after every
\* write of the lifecycle calls on its module that had completed when the
\* call started.
C3_FreshAfterWrite ==
    \A p \in Evaluators :
        LET e == evals[p]
        IN Obtained(e) => e.rulesVer >= e.minVer

---------------------------------------------------------------------------
(* C4 *)

\* the first version of the chain of the rule at position k of rows
RECURSIVE RootOf(_, _)
RootOf(rows, k) ==
    IF rows[k].parentRuleId = Null THEN k ELSE RootOf(rows, rows[k].parentRuleId[1])

\* C4: at most one rule of a version chain is active.
C4_OneActivePerChain ==
    \A j, k \in 1..Len(store) :
        (j # k /\ RootOf(store, j) = RootOf(store, k))
            => ~(store[j].isActive /\ store[k].isActive)

---------------------------------------------------------------------------
(* C11 *)

\* the insert of an updateRule call: one row more, the rows before untouched,
\* the new row one version above the rule read, with that rule as its parent
UpdateInsertStep ==
    \A w \in Writers :
        (ops[w].pc = "update.create" /\ ops'[w].pc = "update.deactivate") =>
            /\ Len(store') = Len(store) + 1
            /\ SubSeq(store', 1, Len(store)) = store
            /\ store'[Len(store')].version = ops[w].existingRule[1].version + 1
            /\ store'[Len(store')].parentRuleId = Some(ops[w].ruleId)

\* the second write of an updateRule call: isActive = false on the existing
\* row and nothing else
UpdateSupersedeStep ==
    \A w \in Writers :
        (ops[w].pc = "update.deactivate" /\ ops'[w].pc = "clear") =>
            /\ Len(store') = Len(store)
            /\ ~store'[ops[w].ruleId].isActive
            /\ \A k \in 1..Len(store) :
                 store'[k] = IF k = ops[w].ruleId
                             THEN [store[k] EXCEPT !.isActive = FALSE]
                             ELSE store[k]

\* no step removes a stored row or changes its payloads, version or parent
HistoryKeptStep ==
    /\ Len(store') >= Len(store)
    /\ \A k \in 1..Len(store) :
         /\ store'[k].conditionPayload = store[k].conditionPayload
         /\ store'[k].actionPayload = store[k].actionPayload
         /\ store'[k].version = store[k].version
         /\ store'[k].parentRuleId = store[k].parentRuleId

\* C11: updateRule inserts exactly one new row, with version =
\* existing.version + 1 and parentRuleId = ruleId, then sets isActive = false
\* on the existing row and changes no other field of it; no lifecycle call
\* changes the condition or action payload of a stored row.
C11_AppendAndSupersede ==
    [][UpdateInsertStep /\ UpdateSupersedeStep /\ HistoryKeptStep]_vars

\* an updateRule call has made both its writes: the parent is inactive and
\* the new row is its version 2
C11_Witness ==
    \E w \in Writers :
        /\ ops[w].pc = "clear" /\ ops[w].kind = "updateRule"
        /\ ~store[ops[w].ruleId].isActive
        /\ ops[w].newVersion[1].version = 2
        /\ ops[w].newVersion[1].parentRuleId = Some(ops[w].ruleId)
        /\ store[ops[w].newVersion[1].id].conditionPayload
             = store[ops[w].ruleId].conditionPayload

---------------------------------------------------------------------------
(* C12 *)

\* the fields other than effectiveTo that the dto d leaves unspecified have
\* in the new version n the value of the existing rule x, and the four
\* fields no dto carries always have
CopiesFromParent(n, x, d) ==
    /\ n.moduleName = x.moduleName /\ n.category = x.category
    /\ n.conditionType = x.conditionType /\ n.actionType = x.actionType
    /\ d.name = Null => n.name = x.name
    /\ d.description = Null => n.description = x.description
    /\ d.conditionPayload = Null => n.conditionPayload = x.conditionPayload
    /\ d.actionPayload = Null => n.actionPayload = x.actionPayload
    /\ d.severityLevel = Null => n.severityLevel = x.severityLevel
    /\ d.priority = Null => n.priority = x.priority
    /\ d.isActive = Null => n.isActive = x.isActive
    /\ d.effectiveFrom = Null => n.effectiveFrom = x.effectiveFrom

\* C12: in the new version created by updateRule every field the dto leaves
\* unspecified has the value of the existing rule, effectiveTo included.
C12_UnspecifiedFieldsCopied ==
    \A w \in Writers :
        ops[w].newVersion # Null =>
            LET n == ops[w].newVersion[1]
                x == ops[w].existingRule[1]
                d == ops[w].data[1]
            IN /\ CopiesFromParent(n, x, d)
               /\ d.effectiveTo = Null => n.effectiveTo = x.effectiveTo

---------------------------------------------------------------------------
(* C13 *)

\* call e found no entry younger than the TTL and its rule fetch failed
FetchFailed(e) ==
    /\ e.pc \notin {"idle", "query"}
    /\ ValidContext(e.context)
    /\ ~e.fromCache /\ ~e.queried

FetchFailureIsError ==
    \A p \in Evaluators :
        LET e == evals[p]
        IN FetchFailed(e) =>
             /\ e.pc = "done"
             /\ e.result[1].decision = "ERROR"
             /\ e.result[1].error # Null
             /\ e.result[1].triggeredRules = <<>>
             /\ e.rules = <<>> /\ e.examined = <<>> /\ e.ruleLogs = <<>>

\* the step in which the fetch of a call fails
FetchFailureStep ==
    \A p \in Evaluators :
        (evals[p].pc = "query" /\ evals'[p].pc # "query" /\ ~evals'[p].queried)
            => rulesCache' = rulesCache

\* C13: when the rule fetch fails and the module has no entry younger than
\* the TTL, the call returns decision ERROR with an error message and no
\* triggered rules; no rule is examined or logged, an expired entry is not
\* used instead, and the cache is left as it was.
C13_FetchFailure == []FetchFailureIsError /\ [][FetchFailureStep]_vars

\* a call whose fetch failed while the module had an expired entry holding
\* rules, which is still there
C13_Witness ==
    \E p \in Evaluators :
        LET e == evals[p]
        IN /\ FetchFailed(e)
           /\ e.seen # Null /\ Len(e.seen[1].rules) > 0
           /\ e.startTime - e.seen[1].lastUpdated >= CACHE_TTL
           /\ rulesCache[e.context.moduleName] = e.seen

---------------------------------------------------------------------------
(* C14 *)

\* C14: a call whose context lacks the user id, the module name or the
\* action returns, in its first step, decision ERROR with the validation
\* message; the cache and the store are not consulted, no exception is
\* looked up, and no rule is examined or logged.
C14_ValidationError ==
    \A p \in Evaluators :
        LET e == evals[p]
        IN (e.pc # "idle" /\ (e.context.user.id = "" \/ e.context.moduleName = ""
                                \/ e.context.action = ""))
           => /\ e.pc = "done"
              /\ e.result[1].decision = "ERROR"
              /\ e.result[1].error
                   = Some("Invalid evaluation context: missing required fields")
              /\ e.result[1].triggeredRules = <<>>
              /\ ~e.fromCache /\ ~e.queried /\ e.seen = Null
              /\ e.rules = <<>> /\ ~InLoop(e)
              /\ e.examined = <<>> /\ e.ruleLogs = <<>>

\* a call without an action has returned, over a store that holds a
\* matching BLOCK rule of its module
C14_Witness ==
    \E p \in Evaluators :
        LET e == evals[p]
        IN /\ e.pc = "done" /\ e.context.action = "" /\ e.context.user.id # ""
           /\ e.result[1].decision = "ERROR"
           /\ \E k \in 1..Len(store) :
                /\ store[k].actionType = "BLOCK"
                /\ store[k].moduleName = e.context.moduleName
                /\ evaluateCondition(store[k].conditionPayload, e.context)

---------------------------------------------------------------------------
(* C15 *)

\* the evaluation of condition c fails for the caller of context ctx: c is
\* one of the malformed conditions, or a role test on a user without roles
Failing(c, ctx) ==
    \/ c \in MalformedConditions
    \/ (Has(c, "type") /\ c.type = "role_based" /\ ~Has(ctx.user, "roles"))

\* the rule loop of call e run over its list without the rules whose
\* condition fails
WithoutFailing(e) ==
    RunLoop([IdleEval EXCEPT !.pc = "loop", !.i = 1,
                             !.context = e.context, !.startTime = e.startTime,
                             !.rules = SelectSeq(e.rules,
                                 LAMBDA r : ~Failing(r.conditionPayload, e.context))])

\* C15: a rule whose condition fails is examined and logged as not met, is
\* not triggered and raises no error; the call returns what it returns over
\* the same list without that rule, so the rules after it are examined as
\* if it had been false; a failing child makes an AND composite false and
\* leaves an OR composite to its other children.
C15_FailingConditionIsFalse ==
    \A p \in Evaluators :
        LET e == evals[p]
        IN /\ \A k \in 1..Len(e.rules) :
                Failing(e.rules[k].conditionPayload, e.context) =>
                  /\ ~evaluateCondition(e.rules[k].conditionPayload, e.context)
                  /\ \A j \in 1..Len(e.triggeredRules) :
                       e.triggeredRules[j].ruleId # e.rules[k].id
                  /\ \A j \in 1..Len(e.ruleLogs) :
                       e.ruleLogs[j].ruleId = e.rules[k].id => ~e.ruleLogs[j].conditionMet
                  /\ e.i > k => \E j \in 1..Len(e.ruleLogs) :
                                  e.ruleLogs[j].ruleId = e.rules[k].id
           /\ (e.pc = "done" /\ InLoop(e)) =>
                LET r == e.result[1]
                    x == WithoutFailing(e).result[1]
                IN /\ r.decision # "ERROR"
                   /\ r.decision = x.decision /\ r.message = x.message
                   /\ r.triggeredRules = x.triggeredRules
                   /\ r.modifications = x.modifications
                   /\ r.requiresApproval = x.requiresApproval
                   /\ r.approvers = x.approvers
           /\ e.pc # "idle" =>
                evaluateCondition(CondOrFailingChild, e.context)
                    = evaluateCondition(CondLow, e.context)

\* a call of the user without roles has returned BLOCKED from the second
\* rule of its list, after a first rule whose role test failed
C15_Witness ==
    \E p \in Evaluators :
        LET e == evals[p]
        IN /\ e.pc = "done" /\ Len(e.rules) = 2
           /\ ~Has(e.context.user, "roles")
           /\ e.rules[1].conditionPayload = CondTeacher
           /\ e.rules[1].actionType = "BLOCK"
           /\ e.rules[2].conditionPayload = CondLow
           /\ e.rules[2].actionType = "BLOCK"
           /\ e.examined = <<e.rules[1].id, e.rules[2].id>>
           /\ e.result[1].decision = "BLOCKED"
           /\ Len(e.result[1].triggeredRules) = 1

---------------------------------------------------------------------------
(* C16 *)

\* the rules of a call that are in effect at its evaluation time
EffectiveRuleIds(e) ==
    {e.rules[k].id : k \in {j \in 1..Len(e.rules) : EffectiveAt(e.rules[j], EvaluationTime(e))}}

\* C16: a call whose exception lookup failed while the store holds an
\* exception for its user goes into the rule loop as if there were none: it
\* is never answered by the bypass ('User has rule exception'), never by
\* decision ERROR, and every rule in effect up to the first BLOCK is examined.
C16_LookupFailureIsNoException ==
    \A p \in Evaluators :
        LET e == evals[p]
        IN e.lookupFailed
           => /\ e.pc \in {"loop", "done"}
              /\ ExceptionApplies(e)
              /\ e.pc = "done"
                   => /\ e.result[1].message # <<"User has rule exception">>
                      /\ e.result[1].decision # "ERROR"
                      /\ e.result[1].error = Null
                      /\ EffectiveRuleIds(e) # {} => e.examined # <<>>
                      /\ e.result[1].decision # "BLOCKED"
                           => {e.examined[k] : k \in 1..Len(e.examined)} = EffectiveRuleIds(e)

\* the lookup failed for a user who holds an exception, and the call ended
\* BLOCKED by a rule it examined
C16_Witness ==
    \E p \in Evaluators :
        /\ evals[p].lookupFailed
        /\ evals[p].pc = "done"
        /\ evals[p].result[1].decision = "BLOCKED"
        /\ evals[p].examined # <<>>

(* C17 *)

\* positions before k whose rule is in effect and whose condition holds
MatchedBefore(e, k) ==
    {j \in 1..(k - 1) : /\ EffectiveAt(e.rules[j], EvaluationTime(e))
                        /\ evaluateCondition(e.rules[j].conditionPayload, e.context)}

\* the decision the loop holds when it reaches position k
RunningDecision(e, k) ==
    DecisionOfRank(Max({0} \cup {ActionRank(e.rules[j].actionType) : j \in MatchedBefore(e, k)}))

\* the rule-log entries of call e written for rule id
LogsOf(e, id) == {j \in 1..Len(e.ruleLogs) : e.ruleLogs[j].ruleId = id}

\* C17: a rule the loop has passed and that is in effect has exactly one
\* rule-log entry, whether its condition held or not and also when it is the
\* triggered BLOCK rule; the entry records the rule id, whether the condition
\* held, the rule's action type and the decision the loop held on reaching
\* the rule.  A rule skipped as not in effect, and a rule the loop has not
\* reached (at the return: a rule ordered after a BLOCK), has none.
C17_OneLogPerExaminedRule ==
    \A p \in Evaluators :
        LET e == evals[p]
        IN (e.pc \in {"loop", "done"} /\ InLoop(e))
           => /\ \A k \in 1..Len(e.rules) :
                    IF k < e.i /\ EffectiveAt(e.rules[k], EvaluationTime(e))
                    THEN /\ Cardinality(LogsOf(e, e.rules[k].id)) = 1
                         /\ \A j \in LogsOf(e, e.rules[k].id) :
                              /\ e.ruleLogs[j].conditionMet =
                                     evaluateCondition(e.rules[k].conditionPayload, e.context)
                              /\ e.ruleLogs[j].actionTaken = e.rules[k].actionType
                              /\ e.ruleLogs[j].decision = RunningDecision(e, k)
                              /\ e.ruleLogs[j].userId = e.context.user.id
                    ELSE LogsOf(e, e.rules[k].id) = {}
              /\ \A j \in 1..Len(e.ruleLogs) :
                    \E k \in 1..Len(e.rules) : e.rules[k].id = e.ruleLogs[j].ruleId
              /\ (e.pc = "done" /\ e.i <= Len(e.rules))
                    => /\ e.result[1].decision = "BLOCKED"
                       /\ e.rules[e.i - 1].actionType = "BLOCK"
                       /\ LogsOf(e, e.rules[e.i - 1].id) # {}

\* a finished call over two rules: the first matched as a WARN and was logged
\* with the decision still ALLOWED, the second did not match and was logged
\* with the decision WARNING
C17_Witness ==
    \E p \in Evaluators :
        LET e == evals[p]
        IN /\ e.pc = "done" /\ Len(e.rules) = 2 /\ Len(e.ruleLogs) = 2
           /\ e.ruleLogs[1].conditionMet /\ e.ruleLogs[1].actionTaken = "WARN"
           /\ e.ruleLogs[1].decision = "ALLOWED"
           /\ ~e.ruleLogs[2].conditionMet /\ e.ruleLogs[2].decision = "WARNING"

\* a call that ended on a BLOCK rule: that rule is logged, the rule ordered
\* after it is not
C17_BlockReached ==
    \E p \in Evaluators :
        LET e == evals[p]
        IN /\ e.pc = "done" /\ Len(e.rules) = 2 /\ e.i = 2
           /\ Len(e.ruleLogs) = 1 /\ e.ruleLogs[1].actionTaken = "BLOCK"

\* a call that skipped a rule not in effect and logged the other one
C17_SkipReached ==
    \E p \in Evaluators :
        LET e == evals[p]
        IN /\ e.pc = "done" /\ Len(e.rules) = 2 /\ e.i = 3 /\ Len(e.ruleLogs) = 1

(* C18 *)

\* C18: a call that has returned a result has handed exactly one aggregate
\* audit entry to the audit service, whichever return it took.
C18_OneAuditPerResult ==
    \A p \in Evaluators :
        evals[p].pc = "done" => Len(evals[p].audits) = 1

\* the returns that do audit: the BLOCK return, the end of the loop and the
\* catch block hand over one entry each; the two early returns hand over none
C18_AuditedReturns ==
    \A p \in Evaluators :
        LET e == evals[p]
        IN e.pc = "done"
           => IF e.result[1].decision # "ERROR" /\ ~InLoop(e)
              THEN /\ e.audits = <<>>
                   /\ e.result[1].message \in {<<"No active rules found">>,
                                                <<"User has rule exception">>}
              ELSE Len(e.audits) = 1

(* C19 *)

\* what evaluateRules hands back to its caller
Returned(e) == [pc |-> e.pc, result |-> e.result]

\* the call with its deferred-write bookkeeping blanked out
WithoutWrites(e) == [e EXCEPT !.ran = 0, !.written = <<>>, !.diagnostics = <<>>]

\* C19: a step in which a deferred log write runs happens after the call has
\* returned and changes nothing of the call but the write's own outcome: the
\* result (decision, message, triggeredRules, modifications, approvers,
\* error) is the one returned, whether the write succeeded or failed; and the
\* step in which a call returns has run none of its writes, all of which are
\* still queued.
C19_LogWritesNeverReachResult ==
    [][\A p \in Evaluators :
          /\ evals'[p].ran # evals[p].ran
               => /\ evals[p].pc = "done"
                  /\ Returned(evals'[p]) = Returned(evals[p])
                  /\ WithoutWrites(evals'[p]) = WithoutWrites(evals[p])
                  /\ Len(evals'[p].written) + Len(evals'[p].diagnostics) = evals'[p].ran
          /\ (evals[p].pc # "done" /\ evals'[p].pc = "done")
               => /\ evals'[p].ran = 0
                  /\ evals'[p].written = <<>>
                  /\ evals'[p].result # Null]_vars

\* every rule-log write and the audit write of a finished call failed, and
\* the call's result is the BLOCKED it returned
C19_Witness ==
    \E p \in Evaluators :
        LET e == evals[p]
        IN /\ e.pc = "done" /\ e.result[1].decision = "BLOCKED"
           /\ e.ruleLogs # <<>> /\ e.audits # <<>>
           /\ e.ran = Len(e.ruleLogs) + Len(e.audits)
           /\ e.written = <<>>
           /\ Len(e.diagnostics) = e.ran

\* a call has returned while all of its log writes are still queued
C19_ReturnedBeforeWrites ==
    \E p \in Evaluators :
        LET e == evals[p]
        IN e.pc = "done" /\ e.ran = 0 /\ Len(e.ruleLogs) + Len(e.audits) >= 2

(* C20 *)

\* the lists the store has returned to the findMany of some call
Answers == {evals[q].answer[1] : q \in {r \in Evaluators : evals[r].answer # Null}}

\* every list a call holds or the cache holds is one whole store answer
WholeAnswerOnly ==
    /\ \A p \in Evaluators :
          (Obtained(evals[p]) /\ evals[p].pc \in {"exception", "loop", "done"})
             => evals[p].rules \in Answers
    /\ \A m \in Modules : rulesCache[m] # Null => rulesCache[m][1].rules \in Answers

\* a store answer is a full result of the query at the time it is given, and
\* the list a call holds stays as it is through every step, those that
\* replace or delete the cache entry included
SnapshotStep ==
    \A p \in Evaluators :
        /\ evals'[p].answer # evals[p].answer
             => evals'[p].answer[1] \in FindActiveRules(store, evals[p].context.moduleName,
                                                       evals[p].queryNow)
        /\ (Obtained(evals[p]) /\ evals[p].pc \in {"exception", "loop", "done"})
             => /\ evals'[p].rules = evals[p].rules
                /\ rulesCache' # rulesCache => evals'[p] = evals[p]

\* C20: with calls, refreshes and clearCache interleaved step by step, the
\* list a call iterates is one complete list as one store query returned it,
\* never a mix of two refreshes, and a step that replaces or deletes the
\* cache entry leaves the list of a running call unchanged.
C20_SnapshotIteration == []WholeAnswerOnly /\ [][SnapshotStep]_vars

\* a call is inside its loop over a list while the cache entry of its module
\* has been replaced by a different list
C20_Witness ==
    \E p \in Evaluators :
        LET e == evals[p]
        IN /\ e.pc = "loop" /\ Len(e.rules) >= 1
           /\ rulesCache[e.context.moduleName] # Null
           /\ rulesCache[e.context.moduleName][1].rules # e.rules

\* a call is inside its loop while the cache entry of its module is deleted
C20_EntryDeleted ==
    \E p \in Evaluators :
        LET e == evals[p]
        IN /\ e.pc = "loop" /\ Len(e.rules) >= 1 /\ e.i = 2
           /\ rulesCache[e.context.moduleName] = Null

(* C21 *)

\* C21: the list getCachedRules returned to a call, from a fresh query or
\* from a cache entry within its TTL, holds no rule whose effectiveTo lay in
\* the past when the call asked for the list.
C21_NoExpiredRuleReturned ==
    \A p \in Evaluators :
        LET e == evals[p]
        IN Obtained(e)
           => \A k \in 1..Len(e.rules) :
                 e.rules[k].effectiveTo = Null \/ e.rules[k].effectiveTo[1] >= e.startTime

\* the part that holds: a list that came from the call's own store query
\* holds no rule that had expired when the query was made
C21_FreshListHasNoExpiredRule ==
    \A p \in Evaluators :
        LET e == evals[p]
        IN (Obtained(e) /\ ~e.fromCache)
           => \A k \in 1..Len(e.rules) :
                 /\ e.rules[k].isActive
                 /\ e.rules[k].effectiveFrom <= e.queryNow
                 /\ e.rules[k].effectiveTo = Null \/ e.rules[k].effectiveTo[1] >= e.queryNow

(* C22 *)

\* the rule at position k matched as a MODIFY rule with a modification map
ModifiesAt(e, k) ==
    /\ k \in MatchedBefore(e, k + 1)
    /\ e.rules[k].actionType = "MODIFY"
    /\ e.rules[k].actionPayload # Null
    /\ e.rules[k].actionPayload[1].modifications # Null

\* the modification maps of the first k rules merged in order, a map being
\* merged only when the decision on reaching its rule is neither BLOCKED nor
\* APPROVAL_REQUIRED
RECURSIVE GuardedMerge(_, _)
GuardedMerge(e, k) ==
    IF k = 0 THEN <<>>
    ELSE IF ModifiesAt(e, k) /\ RunningDecision(e, k) \notin {"BLOCKED", "APPROVAL_REQUIRED"}
         THEN Spread(GuardedMerge(e, k - 1), e.rules[k].actionPayload[1].modifications[1])
         ELSE GuardedMerge(e, k - 1)

\* the modification maps of the first k rules that matched as MODIFY, all of
\* them merged in order
RECURSIVE PlainMerge(_, _)
PlainMerge(e, k) ==
    IF k = 0 THEN <<>>
    ELSE IF ModifiesAt(e, k)
         THEN Spread(PlainMerge(e, k - 1), e.rules[k].actionPayload[1].modifications[1])
         ELSE PlainMerge(e, k - 1)

\* C22: the accumulated modifications are those of the matching MODIFY rules
\* reached with a decision that is neither BLOCKED nor APPROVAL_REQUIRED; a
\* MODIFY rule matching after the decision became APPROVAL_REQUIRED leaves
\* the decision and every key of result.modifications as they were.
C22_ModifyGuarded ==
    \A p \in Evaluators :
        LET e == evals[p]
        IN (e.pc \in {"loop", "done"} /\ InLoop(e))
           => /\ e.modifications = GuardedMerge(e, e.i - 1)
              /\ (e.pc = "done" /\ e.result[1].modifications # Null)
                    => e.result[1].modifications[1] = GuardedMerge(e, e.i - 1)

\* what the loop does: every matching MODIFY rule merges its map, whatever
\* the decision; only the decision is guarded
C22_ModifyMergesAlways ==
    \A p \in Evaluators :
        LET e == evals[p]
        IN (e.pc \in {"loop", "done"} /\ InLoop(e))
           => /\ e.modifications = PlainMerge(e, e.i - 1)
              /\ e.finalDecision = RunningDecision(e, e.i)

(* C23 *)

\* the entries of the rules from position k on that are in effect at the
\* evaluation time and whose condition holds, in list order, ending with the
\* first BLOCK rule among them
RECURSIVE TriggeredFrom(_, _)
TriggeredFrom(e, k) ==
    IF k > Len(e.rules) THEN <<>>
    ELSE IF k \in MatchedBefore(e, k + 1)
         THEN IF e.rules[k].actionType = "BLOCK"
              THEN <<TriggeredEntry(e.rules[k])>>
              ELSE <<TriggeredEntry(e.rules[k])>> \o TriggeredFrom(e, k + 1)
         ELSE TriggeredFrom(e, k + 1)

\* C23: a result that is neither ERROR nor the exception bypass lists in
\* triggeredRules exactly the rules of the iterated list that are in effect
\* at the evaluation time and whose condition holds, in list order, each
\* once, up to and including the first BLOCK rule; ALLOW rules are listed
\* although the decision stays as it is; a rule outside its window is not
\* listed and its condition is not evaluated.
C23_TriggeredRulesExact ==
    \A p \in Evaluators :
        LET e == evals[p]
            t == e.result[1].triggeredRules
        IN (e.pc = "done" /\ InLoop(e))
           => /\ e.result[1].decision # "ERROR"
              /\ t = TriggeredFrom(e, 1)
              /\ \A j, k \in 1..Len(t) : t[j].ruleId = t[k].ruleId => j = k
              /\ \A k \in 1..Len(e.rules) :
                    ~EffectiveAt(e.rules[k], EvaluationTime(e))
                       => /\ \A j \in 1..Len(t) : t[j].ruleId # e.rules[k].id
                          /\ \A j \in 1..Len(e.examined) : e.examined[j] # e.rules[k].id
              /\ (\A j \in 1..Len(t) : t[j].action = "ALLOW")
                    => e.result[1].decision = "ALLOWED"

\* a call over two rules whose conditions hold for the context: the one
\* outside its window is left out, the ALLOW rule is listed, and the
\* decision is ALLOWED
C23_Witness ==
    \E p \in Evaluators :
        LET e == evals[p]
        IN /\ e.pc = "done" /\ Len(e.rules) = 2
           /\ \A k \in 1..2 : evaluateCondition(e.rules[k].conditionPayload, e.context)
           /\ ~EffectiveAt(e.rules[1], EvaluationTime(e))
           /\ e.rules[2].actionType = "ALLOW"
           /\ Len(e.result[1].triggeredRules) = 1
           /\ e.result[1].triggeredRules[1].ruleId = e.rules[2].id
           /\ e.result[1].decision = "ALLOWED"

(* C24 *)

\* positions of the rules in effect whose condition holds, with that action
MatchedWith(e, actionType) ==
    {k \in MatchedBefore(e, Len(e.rules) + 1) : e.rules[k].actionType = actionType}

\* the approver lists of the matching REQUIRE_APPROVAL rules from position k
\* on, one after the other
RECURSIVE ApproversFrom(_, _)
ApproversFrom(e, k) ==
    IF k > Len(e.rules) THEN <<>>
    ELSE IF /\ k \in MatchedWith(e, "REQUIRE_APPROVAL")
            /\ e.rules[k].actionPayload # Null
            /\ e.rules[k].actionPayload[1].approvers # Null
         THEN e.rules[k].actionPayload[1].approvers[1] \o ApproversFrom(e, k + 1)
         ELSE ApproversFrom(e, k + 1)

\* the positions of seq that hold the first occurrence of their value
FirstOccurrences(seq) == {j \in 1..Len(seq) : \A i \in 1..(j - 1) : seq[i] # seq[j]}

\* seq is the values of all in order of first occurrence, each once
IsUnionInOrder(seq, all) ==
    /\ Len(seq) = Cardinality(FirstOccurrences(all))
    /\ \A j \in 1..Len(seq) :
          \E k \in FirstOccurrences(all) :
              /\ seq[j] = all[k]
              /\ Cardinality({i \in FirstOccurrences(all) : i < k}) = j - 1

\* C24: when a REQUIRE_APPROVAL rule triggers and no BLOCK rule does, the
\* result is APPROVAL_REQUIRED with requiresApproval = true and approvers
\* holding each approver of the triggered REQUIRE_APPROVAL rules once, in
\* order of first occurrence, and no approver of any other rule.
C24_ApprovalUnion ==
    \A p \in Evaluators :
        LET e == evals[p]
        IN (/\ e.pc = "done" /\ InLoop(e)
            /\ MatchedWith(e, "REQUIRE_APPROVAL") # {}
            /\ MatchedWith(e, "BLOCK") = {})
           => /\ e.result[1].decision = "APPROVAL_REQUIRED"
              /\ e.result[1].requiresApproval = Some(TRUE)
              /\ e.result[1].approvers # Null
              /\ IsUnionInOrder(e.result[1].approvers[1], ApproversFrom(e, 1))

\* two REQUIRE_APPROVAL rules triggered, the first naming head, the second
\* dean and head: the result names head, then dean
C24_Witness ==
    \E p \in Evaluators :
        LET e == evals[p]
        IN /\ e.pc = "done"
           /\ Cardinality(MatchedWith(e, "REQUIRE_APPROVAL")) = 2
           /\ ApproversFrom(e, 1) = <<"head", "dean", "head">>
           /\ e.result[1].approvers = Some(<<"head", "dean">>)

(* C25 *)

\* the lookup of call e ran over a row that covers its caller
CoveredAtLookup(e) ==
    \E x \in e.lookedUp :
        /\ x.userId = e.context.user.id
        /\ x.isActive
        /\ x.effectiveFrom <= e.exceptionAt /\ e.exceptionAt <= x.effectiveTo
        /\ \E k \in 1..Len(e.rules) : e.rules[k].id = x.ruleId

\* the exception bypass was taken
Bypassed(e) ==
    e.pc = "done" /\ e.result[1].message = <<"User has rule exception">>

\* C25: a call is bypassed only if the rows its lookup ran over hold one of
\* the caller that is active, in its window and for a rule of the candidate
\* list; and two calls with the same context over the same rules, whose
\* lookups were answered over row sets that differ only in rows of other
\* users, inactive rows, rows out of their window and rows for rules outside
\* the candidate list, return the same result.
C25_OnlyCoveringExceptionsCount ==
    /\ \A p \in Evaluators : Bypassed(evals[p]) => CoveredAtLookup(evals[p])
    /\ \A p, q \in Evaluators :
          (/\ evals[p].pc = "done" /\ evals[q].pc = "done"
           /\ evals[p].result[1].decision # "ERROR"
           /\ evals[q].result[1].decision # "ERROR"
           /\ ~evals[p].lookupFailed /\ ~evals[q].lookupFailed)
          => evals[p].result = evals[q].result

\* two calls have returned the same BLOCKED result; the second ran its
\* lookup over rows the first did not see, among them an active row in its
\* window for a candidate rule that belongs to another user
C25_Witness ==
    /\ evals["e1"].pc = "done" /\ evals["e2"].pc = "done"
    /\ evals["e1"].result[1].decision = "BLOCKED"
    /\ evals["e2"].result = evals["e1"].result
    /\ evals["e1"].lookedUp # evals["e2"].lookedUp
    /\ \E x \in evals["e2"].lookedUp \ evals["e1"].lookedUp :
          /\ x.userId # "u1" /\ x.isActive /\ x.effectiveFrom = 0
          /\ \E k \in 1..Len(evals["e2"].rules) : evals["e2"].rules[k].id = x.ruleId

\* both calls were bypassed although the rows at their lookups differ
C25_BothBypassed ==
    /\ Bypassed(evals["e1"]) /\ Bypassed(evals["e2"])
    /\ evals["e1"].lookedUp # evals["e2"].lookedUp

(* C26 *)

\* the catch block of evaluateCondition ran for the rule at position k of
\* call e: the rule was reached, was in effect, and its condition threw
CaughtAt(e, k) ==
    /\ k < e.i
    /\ EffectiveAt(e.rules[k], EvaluationTime(e))
    /\ Has(e.rules[k].conditionPayload, "type")
    /\ SwitchThrows(e.rules[k].conditionPayload, e.context)

\* C26: when evaluateCondition caught an error for a rule, a failure entry
\* naming that rule has been handed to the audit service by the time the
\* call returns, and the rule is not triggered.
C26_ConditionFailureAudited ==
    \A p \in Evaluators :
        LET e == evals[p]
        IN (e.pc = "done" /\ InLoop(e))
           => \A k \in 1..Len(e.rules) :
                 CaughtAt(e, k)
                   => /\ \A j \in 1..Len(e.triggeredRules) :
                           e.triggeredRules[j].ruleId # e.rules[k].id
                      /\ \E j \in 1..Len(e.audits) :
                           /\ e.audits[j].status = "FAILURE"
                           /\ e.audits[j].resourceId = Some(e.rules[k].id)

\* what the code does: a rule whose condition threw is not triggered, is
\* logged as not met, and no audit entry of the call names it
C26_ConditionFailureSilent ==
    \A p \in Evaluators :
        LET e == evals[p]
        IN (e.pc = "done" /\ InLoop(e))
           => \A k \in 1..Len(e.rules) :
                 CaughtAt(e, k)
                   => /\ \A j \in 1..Len(e.triggeredRules) :
                           e.triggeredRules[j].ruleId # e.rules[k].id
                      /\ \E j \in 1..Len(e.ruleLogs) :
                           e.ruleLogs[j].ruleId = e.rules[k].id /\ ~e.ruleLogs[j].conditionMet
                      /\ \A j \in 1..Len(e.audits) : e.audits[j].resourceId = Null

(* C27 *)

BlockMessage(rule) ==
    IF rule.actionPayload # Null /\ rule.actionPayload[1].message # Null
       /\ rule.actionPayload[1].message[1] # ""
    THEN <<rule.actionPayload[1].message[1]>>
    ELSE <<"Action blocked by rule: ", rule.name>>

\* C28: a BLOCKED result has no modifications, approvers or requiresApproval,
\* whatever the MODIFY and REQUIRE_APPROVAL rules triggered before the BLOCK
\* rule had accumulated; its triggeredRules lists those earlier rules and
\* then the BLOCK rule, and its message is the BLOCK rule's message.
C28_BlockedResultIsBare ==
    \A p \in Evaluators :
        LET e == evals[p]
            r == e.result[1]
        IN (e.pc = "done" /\ r.decision = "BLOCKED")
           => /\ r.modifications = Null
              /\ r.approvers = Null
              /\ r.requiresApproval = Null
              /\ BlockingAt(e) # {}
              /\ r.triggeredRules = TriggeredFrom(e, 1)
              /\ r.triggeredRules[Len(r.triggeredRules)]
                    = TriggeredEntry(e.rules[Min(BlockingAt(e))])
              /\ \A j \in 1..(Len(r.triggeredRules) - 1) : r.triggeredRules[j].action # "BLOCK"
              /\ r.message = BlockMessage(e.rules[Min(BlockingAt(e))])

\* a MODIFY rule triggered and left modifications in the accumulator, then
\* a BLOCK rule triggered: the result lists both and carries no modifications
C28_Witness ==
    \E p \in Evaluators :
        LET e == evals[p]
        IN /\ e.pc = "done" /\ e.result[1].decision = "BLOCKED"
           /\ Len(e.result[1].triggeredRules) = 2
           /\ e.result[1].triggeredRules[1].action = "MODIFY"
           /\ e.modifications # <<>>
           /\ e.result[1].modifications = Null

\* the same after a REQUIRE_APPROVAL rule that had named approvers
C28_AfterApproval ==
    \E p \in Evaluators :
        LET e == evals[p]
        IN /\ e.pc = "done" /\ e.result[1].decision = "BLOCKED"
           /\ e.result[1].triggeredRules[1].action = "REQUIRE_APPROVAL"
           /\ e.approvers # <<>> /\ e.requiresApproval
           /\ e.result[1].approvers = Null /\ e.result[1].requiresApproval = Null

(* C29 *)

\* the value of x as a number, when it has one
HasNumber(x) == Number(x) # Null

NumberOf(x) == Number(x)[1]

\* the reference definition of a threshold test: false unless field,
\* operator and value are given and the field is present and not null in
\* the data; then the comparison named by the operator
ThresholdReference(c, data) ==
    /\ Has(c, "field") /\ Has(c, "operator") /\ Has(c, "value")
    /\ c.field \in DOMAIN data
    /\ data[c.field].t # "null"
    /\ LET f == data[c.field]
           v == c.value
           same(a, b) == a.t # "array" /\ a = b
           member == v.t = "array" /\ \E k \in 1..Len(v.v) : same(v.v[k], f)
       IN \/ c.operator = "eq" /\ same(f, v)
          \/ c.operator = "ne" /\ ~same(f, v)
          \/ c.operator = "gt" /\ HasNumber(f) /\ HasNumber(v) /\ NumberOf(f) > NumberOf(v)
          \/ c.operator = "gte" /\ HasNumber(f) /\ HasNumber(v) /\ NumberOf(f) >= NumberOf(v)
          \/ c.operator = "lt" /\ HasNumber(f) /\ HasNumber(v) /\ NumberOf(f) < NumberOf(v)
          \/ c.operator = "lte" /\ HasNumber(f) /\ HasNumber(v) /\ NumberOf(f) <= NumberOf(v)
          \/ c.operator = "in" /\ member
          \/ c.operator = "nin" /\ v.t = "array" /\ ~member
          \/ /\ c.operator = "between"
             /\ v.t = "array" /\ Len(v.v) = 2
             /\ HasNumber(f) /\ HasNumber(v.v[1]) /\ HasNumber(v.v[2])
             /\ NumberOf(v.v[1]) <= NumberOf(f) /\ NumberOf(f) <= NumberOf(v.v[2])

\* C29: for every rule, field value and bound of the model, the threshold
\* test gives what the reference definition gives (contains, on which the
\* reference is silent, left aside): false for every operator, ne and nin
\* included, when the field is absent or null or when field, operator or
\* value is missing; numeric comparison for gt, gte, lt, lte; between with
\* both bounds included and false for a bound that is not a pair; false for
\* an unknown operator.  The rule log of the call records that value.
C29_ThresholdAgreesWithReference ==
    \A p \in Evaluators :
        LET e == evals[p]
        IN e.pc # "idle"
           => \A k \in 1..Len(e.rules) :
                 LET c == e.rules[k].conditionPayload
                 IN (c.type = "threshold" /\ (Has(c, "operator") => c.operator # "contains"))
                    => /\ evaluateThreshold(c, e.context)
                            = ThresholdReference(c, e.context.resourceData)
                       /\ \A j \in 1..Len(e.ruleLogs) :
                            e.ruleLogs[j].ruleId = e.rules[k].id
                              => e.ruleLogs[j].conditionMet
                                   = ThresholdReference(c, e.context.resourceData)

\* the field holds the string "30" and the bound is a pair that starts at 30:
\* the between test held and the rule triggered
C29_Witness ==
    \E p \in Evaluators :
        LET e == evals[p]
        IN /\ e.pc = "done" /\ Len(e.rules) = 1
           /\ Has(e.rules[1].conditionPayload, "operator")
           /\ e.rules[1].conditionPayload.operator = "between"
           /\ Has(e.rules[1].conditionPayload, "value")
           /\ e.rules[1].conditionPayload.value.t = "array"
           /\ Len(e.rules[1].conditionPayload.value.v) = 2
           /\ "percentage" \in DOMAIN e.context.resourceData
           /\ e.context.resourceData.percentage.t = "string"
           /\ Number(e.context.resourceData.percentage) = Some(30)
           /\ Len(e.triggeredRules) = 1

\* the field is absent and the operator is ne: the rule was examined and
\* did not trigger
C29_AbsentFieldReached ==
    \E p \in Evaluators :
        LET e == evals[p]
        IN /\ e.pc = "done" /\ Len(e.rules) = 1
           /\ Has(e.rules[1].conditionPayload, "operator")
           /\ e.rules[1].conditionPayload.operator = "ne"
           /\ Has(e.rules[1].conditionPayload, "field")
           /\ "percentage" \notin DOMAIN e.context.resourceData
           /\ Len(e.ruleLogs) = 1 /\ e.triggeredRules = <<>>

(* C30 *)

\* the value the claim gives a condition: a composite with children is the
\* conjunction of its children, or their disjunction when its logic is OR; a
\* composite without children is false; a child that fails is false; any
\* other child has the value of its own evaluation
RECURSIVE CompositeReference(_, _)
CompositeReference(c, ctx) ==
    IF Has(c, "type") /\ c.type = "composite"
    THEN /\ Has(c, "conditions")
         /\ Len(c.conditions) > 0
         /\ IF Has(c, "logic") /\ c.logic = "OR"
            THEN \E k \in 1..Len(c.conditions) : CompositeReference(c.conditions[k], ctx)
            ELSE \A k \in 1..Len(c.conditions) : CompositeReference(c.conditions[k], ctx)
    ELSE IF Failing(c, ctx) THEN FALSE
    ELSE evaluateCondition(c, ctx)

\* condition c with its children in the opposite order
Reversed(c) ==
    [c EXCEPT !.conditions = [k \in 1..Len(c.conditions) |->
                                 c.conditions[Len(c.conditions) + 1 - k]]]

\* C30: a composite with children is the conjunction of its children when
\* its logic is AND or absent and their disjunction when it is OR, at every
\* depth and whatever the order of the children; a failing child counts as
\* false; a composite with no or an empty child list is false for both
\* logics.  The rule log of the call records that value.
C30_CompositeFold ==
    \A p \in Evaluators :
        LET e == evals[p]
        IN e.pc # "idle"
           => \A k \in 1..Len(e.rules) :
                 LET c == e.rules[k].conditionPayload
                 IN (Has(c, "type") /\ c.type = "composite")
                    => /\ evaluateComposite(c, e.context) = CompositeReference(c, e.context)
                       /\ evaluateCondition(c, e.context) = CompositeReference(c, e.context)
                       /\ Has(c, "conditions")
                            => evaluateComposite(Reversed(c), e.context)
                                 = evaluateComposite(c, e.context)
                       /\ \A j \in 1..Len(e.ruleLogs) :
                            e.ruleLogs[j].ruleId = e.rules[k].id
                              => e.ruleLogs[j].conditionMet = CompositeReference(c, e.context)

\* a composite without logic whose second child is an OR composite over a
\* child that holds and an AND composite that does not: the rule triggered
C30_Witness ==
    \E p \in Evaluators :
        LET e == evals[p]
            c == e.rules[1].conditionPayload
        IN /\ e.pc = "done" /\ Len(e.rules) = 1
           /\ ~Has(c, "logic") /\ Has(c, "conditions") /\ Len(c.conditions) = 2
           /\ c.conditions[2] = Composite("OR", <<CondLow, Composite("AND", <<CondLow, CondAdmin>>)>>)
           /\ ~evaluateCondition(Composite("AND", <<CondLow, CondAdmin>>), e.context)
           /\ Len(e.triggeredRules) = 1

\* an OR composite over a failing child and a child that holds triggered,
\* and an AND composite over the same children did not (two states)
C30_FailingChildReached ==
    \E p \in Evaluators :
        LET e == evals[p]
            c == e.rules[1].conditionPayload
        IN /\ e.pc = "done" /\ Len(e.rules) = 1
           /\ Has(c, "logic") /\ c.logic = "OR" /\ Has(c, "conditions")
           /\ Len(c.conditions) = 2
           /\ Failing(c.conditions[1], e.context)
           /\ Len(e.triggeredRules) = 1

\* an OR composite with an empty child list was examined and did not trigger
C30_EmptyReached ==
    \E p \in Evaluators :
        LET e == evals[p]
            c == e.rules[1].conditionPayload
        IN /\ e.pc = "done" /\ Len(e.rules) = 1
           /\ Has(c, "logic") /\ c.logic = "OR" /\ Has(c, "conditions")
           /\ Len(c.conditions) = 0
           /\ Len(e.ruleLogs) = 1 /\ e.triggeredRules = <<>>

(* C5 *)

\* C5: when an exception applies to a call (and the lookup answered), the
\* call never enters the rule loop: it returns ALLOWED, 'User has rule
\* exception', no triggered rule, and no condition was evaluated.
C5_ExceptionBypass ==
    \A p \in Evaluators :
        LET e == evals[p]
        IN (e.pc \in {"loop", "done"} /\ Len(e.rules) > 0
              /\ ExceptionApplies(e) /\ ~e.lookupFailed)
           => /\ e.pc = "done"
              /\ e.result[1].decision = "ALLOWED"
              /\ e.result[1].message = <<"User has rule exception">>
              /\ e.result[1].triggeredRules = <<>>
              /\ e.examined = <<>>
              /\ e.ruleLogs = <<>>

\* a call was bypassed although its list holds a matching BLOCK rule that
\* the exception does not cover
C5_Witness ==
    \E p \in Evaluators :
        LET e == evals[p]
        IN /\ e.pc = "done"
           /\ ExceptionApplies(e) /\ ~e.lookupFailed
           /\ e.result[1].decision = "ALLOWED"
           /\ \E k \in BlockingAt(e) : \A x \in exceptions : x.ruleId # e.rules[k].id

---------------------------------------------------------------------------
(* C6 *)

\* C6: two calls with the same context whose rule lists were read from the
\* same rows with the same query examine the same rules in the same order.
C6_OrderIsDetermined ==
    \A p, q \in Evaluators :
        LET e == evals[p]
            f == evals[q]
        IN (/\ e.pc = "done" /\ f.pc = "done"
            /\ e.queried /\ f.queried
            /\ e.context = f.context
            /\ e.rulesVer = f.rulesVer /\ e.queryNow = f.queryNow)
           => e.examined = f.examined

---------------------------------------------------------------------------
(* C7 *)

\* call f started after call e had returned, and the rule rows have not
\* changed since the list of e was read
NothingChangedBetween(e, f) ==
    /\ e.pc = "done" /\ f.pc = "done"
    /\ e.result[1].decision # "ERROR" /\ f.result[1].decision # "ERROR"
    /\ e.startTime + e.result[1].executionTimeMs < f.startTime
    /\ e.rulesVer = storeVer

\* C7: two calls with the same context, between which no rule changes,
\* return the same decision, triggeredRules and modifications.
C7_SameContextSameResult ==
    \A p, q \in Evaluators :
        LET e == evals[p]
            f == evals[q]
        IN (e.context = f.context /\ NothingChangedBetween(e, f))
           => /\ e.result[1].decision = f.result[1].decision
              /\ e.result[1].triggeredRules = f.result[1].triggeredRules
              /\ e.result[1].modifications = f.result[1].modifications

---------------------------------------------------------------------------
(* C8 *)

\* call e has passed the cache test of getCachedRules
PastCacheTest(e) == e.pc # "idle" /\ (e.fromCache \/ e.pc = "query" \/ e.queried)

\* the entry found by the cache test of call e, and its age then
EntryAge(e) == e.startTime - e.seen[1].lastUpdated

CacheAnswers ==
    \A p \in Evaluators :
        LET e == evals[p]
        IN /\ PastCacheTest(e) =>
                (e.fromCache <=> (e.seen # Null /\ EntryAge(e) < 5 * 60 * 1000))
           /\ e.fromCache => (~e.queried /\ e.rules = e.seen[1].rules)
           /\ (Obtained(e) /\ ~e.fromCache) => e.queried
           /\ Obtained(e) => e.startTime - e.rulesReadAt < 5 * 60 * 1000

\* the step in which a call leaves getCachedRules after a store query
RefreshStep ==
    \A p \in Evaluators :
        (evals[p].pc = "set" /\ evals'[p].pc # "set") =>
            LET m == evals[p].context.moduleName
            IN /\ rulesCache'[m] = Some([rules |-> evals[p].fetched,
                                         lastUpdated |-> evals[p].startTime])
               /\ evals'[p].rules = evals[p].fetched

\* C8: getCachedRules answers from memory, without a store query, exactly
\* when the module has an entry younger than 5 minutes; otherwise it
\* queries the store, replaces the entry with the answer and returns it;
\* so the list a call evaluates was read from the store less than 5 minutes
\* before the call started.
C8_CacheTtl == []CacheAnswers /\ [][RefreshStep]_vars

\* a call found an entry aged exactly 5 minutes, queried the store and
\* returned a list other than the entry's, while the invalidation of the
\* write it observed was still to come
C8_Witness ==
    \E p \in Evaluators :
        LET e == evals[p]
        IN /\ e.pc = "done" /\ ~e.fromCache /\ e.queried
           /\ e.seen # Null /\ EntryAge(e) = 5 * 60 * 1000
           /\ e.rules # e.seen[1].rules
           /\ \E w \in Writers : ops[w].pc = "clear" /\ ops[w].lastVer = e.rulesVer

---------------------------------------------------------------------------
(* C9 *)

\* positions of the triggered MODIFY rules that carry a modification map
ModifyingAt(e) ==
    {k \in TriggeredAt(e) :
        /\ e.rules[k].actionType = "MODIFY"
        /\ e.rules[k].actionPayload # Null
        /\ e.rules[k].actionPayload[1].modifications # Null}

ModificationsOf(rule) == rule.actionPayload[1].modifications[1]

\* C9: when a call returns from the end of its loop with neither a
\* REQUIRE_APPROVAL nor a BLOCK rule triggered, result.modifications has
\* exactly the keys set by the triggered MODIFY rules, each with the value of
\* the last triggered rule that sets it.
C9_ModificationsLastWriteWins ==
    \A p \in Evaluators :
        LET e == evals[p]
            M == ModifyingAt(e)
        IN (/\ e.pc = "done" /\ InLoop(e)
            /\ \A k \in TriggeredAt(e) :
                  e.rules[k].actionType \notin {"REQUIRE_APPROVAL", "BLOCK"})
           => /\ e.result[1].modifications # Null
              /\ LET mods == e.result[1].modifications[1]
                 IN /\ DOMAIN mods = UNION {DOMAIN ModificationsOf(e.rules[k]) : k \in M}
                    /\ \A key \in DOMAIN mods :
                          mods[key] =
                             ModificationsOf(e.rules[
                                Max({k \in M : key \in DOMAIN ModificationsOf(e.rules[k])})])[key]

\* two MODIFY rules that set the same key to different values triggered
C9_Witness ==
    \E p \in Evaluators :
        LET e == evals[p]
        IN /\ e.pc = "done" /\ InLoop(e)
           /\ e.result[1].decision = "MODIFIED"
           /\ \E j, k \in ModifyingAt(e) :
                 /\ j < k
                 /\ \E key \in DOMAIN ModificationsOf(e.rules[j]) :
                       /\ key \in DOMAIN ModificationsOf(e.rules[k])
                       /\ ModificationsOf(e.rules[j])[key] # ModificationsOf(e.rules[k])[key]

---------------------------------------------------------------------------
(* C10 *)

\* positions of the triggered WARN rules
WarningAt(e) == {k \in TriggeredAt(e) : e.rules[k].actionType = "WARN"}

\* the message a WARN rule contributes: its payload's, else the default
WarnMessageOf(rule) ==
    IF rule.actionPayload # Null /\ rule.actionPayload[1].message # Null
    THEN rule.actionPayload[1].message
    ELSE <<"Warning from rule: ", rule.name>>

\* while the decision is WARNING the message is the first triggered WARN rule's
WarnMessageIsFirst ==
    \A p \in Evaluators :
        LET e == evals[p]
        IN /\ e.finalDecision = "WARNING"
              => /\ WarningAt(e) # {}
                 /\ e.finalMessage = WarnMessageOf(e.rules[Min(WarningAt(e))])
           /\ (e.pc = "done" /\ e.result[1].decision = "WARNING")
              => e.result[1].message = WarnMessageOf(e.rules[Min(WarningAt(e))])

\* a step that triggers a WARN rule changes the decision only from ALLOWED
\* to WARNING, and otherwise leaves decision and message as they were
WarnStep ==
    \A p \in Evaluators :
        LET e == evals[p]
            f == evals'[p]
        IN (/\ e.pc = "loop"
            /\ Len(f.triggeredRules) = Len(e.triggeredRules) + 1
            /\ f.triggeredRules[Len(f.triggeredRules)].action = "WARN")
           => IF e.finalDecision = "ALLOWED"
              THEN f.finalDecision = "WARNING"
              ELSE f.finalDecision = e.finalDecision /\ f.finalMessage = e.finalMessage

\* C10: a matching WARN rule changes the decision only when it is still
\* ALLOWED, and the warning message stays that of the first triggered WARN.
C10_FirstWarnMessageKept == []WarnMessageIsFirst /\ [][WarnStep]_vars

\* two WARN rules with different messages triggered and the call returned WARNING
C10_Witness ==
    \E p \in Evaluators :
        LET e == evals[p]
        IN /\ e.pc = "done"
           /\ e.result[1].decision = "WARNING"
           /\ \E j, k \in WarningAt(e) :
                 j < k /\ WarnMessageOf(e.rules[j]) # WarnMessageOf(e.rules[k])

====
